---- MODULE Spec2Model ----
(***************************************************************************)
(* Syzygy tablebase probing (src/src/syzygy/tbprobe.cpp).                  *)
(*                                                                         *)
(* The module holds several specifications over one set of variables:      *)
(*   Spec        concurrent probe_wdl_table calls on one WDL entry         *)
(*               (lazy init under TB_mutex, publication through ready)     *)
(*   SpecDtzSeq  probe_dtz_table calls made one after the other            *)
(*   SpecDtzPar  probe_dtz_table calls made by several threads at once     *)
(*   SpecProbe   probe_wdl and probe_dtz on positions of a game tree       *)
(*   SpecEnc     probe_table's index of a position and of its images       *)
(*   SpecDec     set_sizes and decompress_pairs on a compressed table      *)
(*   SpecLead    probe_table of pawnless tables, the kings on all squares  *)
(*   SpecEncDtz  probe_table on a DTZ entry, which stores one side to move *)
(*   SpecRoot    root_probe and root_probe_wdl on the moves of a root      *)
(*   SpecInit    Tablebases::init, again after probes                      *)
(*   SpecCall    the probes as calls on one Position, with do_move and     *)
(*               undo_move; SpecCallFair: every call that can go on does   *)
(* Each specification leaves the variables of the others untouched.        *)
(***************************************************************************)
EXTENDS Integers, Sequences, FiniteSets, TLC

(***************************************************************************)
(* WDL scores (comment at tbprobe.cpp:1656-1660).                          *)
(***************************************************************************)
WDLLoss       == -2
WDLCursedLoss == -1
WDLDraw       == 0
WDLCursedWin  == 1
WDLWin        == 2
WDLScores     == WDLLoss..WDLWin

(***************************************************************************)
(* Bounds of the concurrent models.                                        *)
(***************************************************************************)
NThreads == 2
Threads  == 1..NThreads
NoThread == 0

VARIABLES
    \* ---- the probed WDLEntry and the globals of probe_wdl_table ----
    registered,   \* WDLHash[key] # nullptr
    wdlFile,      \* state of the .rtbw file on disk: "ok", "missing", "corrupt"
    tbValue,      \* the WDL score stored in the table for the probed position
    ready,        \* entry->ready (std::atomic_bool)
    baseAddress,  \* entry->baseAddress # nullptr
    precomp,      \* entry's PairsData: "null", "partial" (being parsed), "parsed"
    TB_mutex,     \* the thread that holds TB_mutex, or NoThread
    initCalls,    \* number of calls of entry->init
    initOk,       \* number of calls of entry->init that returned true
    \* ---- per thread ----
    pc,           \* position of each thread inside probe_wdl_table
    success,      \* *success of each thread's call
    result,       \* value returned by each thread's call
    torn,         \* the thread read the entry's fields while they were not complete
    seenReady,    \* which load of ready returned true: "none", "acquire", "relaxed"
    late          \* the call started after a call whose entry->init failed returned

wdlVars == <<registered, wdlFile, tbValue, ready, baseAddress, precomp, TB_mutex,
             initCalls, initOk, pc, success, result, torn, seenReady, late>>

VARIABLES
    \* ---- the DTZ list and the sequential probe_dtz_table calls ----
    DTZTable,     \* std::list<DTZEntry>, front first: entries [id, key, key2, base];
                  \* base = material whose .rtbz file is mapped, 0 for baseAddress = nullptr
    dtzFiles,     \* materials whose .rtbz file exists and has the right magic
    dtzOut,       \* outcome of the last sequential probe_dtz_table call
    \* ---- per thread, concurrent probe_dtz_table calls ----
    dpc,          \* position of each thread inside probe_dtz_table
    dkey,         \* pos.material_key() of each thread's call
    dsuccess,     \* *success of each thread's call
    dit,          \* id of the entry the iterator it points to (1179-1182)
    dseen,        \* the list as push_front read it before linking the new node
    handed,       \* the entry &DTZTable.front() handed to probe_table (1228)
    dcalls,       \* number of calls each thread has made
    nextId        \* identity given to the next DTZEntry constructed

dtzVars == <<DTZTable, dtzFiles, dtzOut>>
dtzParVars == <<dpc, dkey, dsuccess, dit, dseen, handed, dcalls, nextId>>

VARIABLES
    \* ---- probe_wdl and probe_dtz on one position ----
    ppos,         \* the position probed
    plyTables,    \* the DTZ tables have the WinPlies and LossPlies flags set
    pcalled,      \* which of the two probes has been called
    pwdl,         \* value and *success of Tablebases::probe_wdl
    pdtz          \* value and *success of probe_dtz

probeVars == <<ppos, plyTables, pcalled, pwdl, pdtz>>

VARIABLES
    \* ---- probe_table on a position and on its image under a symmetry ----
    etab,         \* the table entry
    epos,         \* the position probed next
    eorig,        \* the position probed first
    esym,         \* the symmetry that made epos from eorig, "none" before
    eres0,        \* bucket and index of the first position
    eres1         \* bucket and index of its image

encVars == <<etab, epos, eorig, esym, eres0, eres1>>

VARIABLES
    hd,         \* the PairsData
    hvalues,    \* the values the table was laid out from
    hidx,       \* the index asked for
    hgarbage,   \* what a read past the mapped data finds
    hpc,        \* "idle", "mapped", "ready", "done"
    hres        \* the value decompress_pairs returned

decVars == <<hd, hvalues, hidx, hgarbage, hpc, hres>>

VARIABLES
    eflags,     \* the flags byte of the DTZ entry's buckets, by file
    ewdl,       \* the wdl argument of the DTZ lookup
    esuccess,   \* *success
    edtz        \* what probe_table returned on the DTZ entry

encDtzVars == <<eflags, ewdl, esuccess, edtz>>

VARIABLES
    rootMoves,  \* Search::RootMoves: the moves and their scores
    score,      \* the caller's score
    rcalled,    \* which root probe was called
    rret,       \* what it returned
    rlooked,    \* what each table lookup of the call left in success
    rst,        \* the StateInfo chain up to the root
    rcnt50,     \* cnt50 as read at 1816
    rrepeated   \* has_repeated(st.previous) as read at 1855

rootVars == <<rootMoves, score, rcalled, rret, rlooked, rst, rcnt50, rrepeated>>

VARIABLES
    WDLTable,       \* std::deque<WDLEntry>
    WDLHash,        \* HashTable: per bucket HSHMAX slots [key, ptr]
    MaxCardinality, \* Tablebases::MaxCardinality
    TBPaths,        \* the paths of the last init
    exited,         \* exit(1) was called at 267
    ilast,          \* the last operation made
    icleared,       \* what the last init found: the length of the DTZ list
                    \* and the number of loaded WDL entries
    iout            \* the last probe since the last init: which one, whether
                    \* the position had only the two kings, and *success

initVars == <<WDLTable, WDLHash, MaxCardinality, TBPaths, exited, ilast, icleared, iout>>

VARIABLES
    kpos,       \* the Position object the probes work on
    kundo,      \* the positions do_move left behind, the last move on top
    kstack,     \* the frames of the probe functions that have not returned
    ksuccess,   \* *success, one int shared by every call of a probe
    kret,       \* the WDL value the last probe_ab call returned
    klast,      \* the frame that returned last, its label and the position left
    ktable      \* the DTZ table of the root's material: symmetric, hasPawns, flags

callVars == <<kpos, kundo, kstack, ksuccess, kret, klast, ktable>>

vars == <<wdlVars, dtzVars, dtzParVars, probeVars, encVars, decVars, encDtzVars, rootVars, initVars, callVars>>

\* the variables each group of actions leaves alone
notWdl == <<dtzVars, dtzParVars, probeVars, encVars, decVars, encDtzVars, rootVars, initVars, callVars>>
notDtz == <<wdlVars, probeVars, encVars, decVars, encDtzVars, rootVars, initVars, callVars>>
notProbe == <<wdlVars, dtzVars, dtzParVars, encVars, decVars, encDtzVars, rootVars, initVars, callVars>>
notEnc == <<wdlVars, dtzVars, dtzParVars, probeVars, decVars, encDtzVars, rootVars, initVars, callVars>>
notEncDtz == <<wdlVars, dtzVars, dtzParVars, probeVars, decVars, rootVars, initVars, callVars>>
notRoot == <<wdlVars, dtzVars, dtzParVars, encVars, decVars, encDtzVars, initVars, callVars>>
notInit == <<wdlVars, dtzParVars, probeVars, encVars, decVars, encDtzVars, rootVars, callVars>>
notCall == <<wdlVars, dtzVars, dtzParVars, probeVars, encVars, decVars, encDtzVars, rootVars, initVars>>
notDec == <<wdlVars, dtzVars, dtzParVars, probeVars, encVars, encDtzVars, rootVars, initVars, callVars>>

NoResult == 99

(***************************************************************************)
(* State right after Tablebases::init: the entry, when the .rtbw file was  *)
(* found, is zeroed (memset in the WDLEntry constructor), so ready = false *)
(* and baseAddress = nullptr.  The file may since have been removed or may *)
(* hold a wrong magic.                                                     *)
(***************************************************************************)
WdlIdle ==
    /\ registered = FALSE
    /\ wdlFile = "missing"
    /\ tbValue = WDLDraw
    /\ ready = FALSE
    /\ baseAddress = FALSE
    /\ precomp = "null"
    /\ TB_mutex = NoThread
    /\ initCalls = 0
    /\ initOk = 0
    /\ pc = [t \in Threads |-> "done"]
    /\ success = [t \in Threads |-> 1]
    /\ result = [t \in Threads |-> NoResult]
    /\ torn = [t \in Threads |-> FALSE]
    /\ seenReady = [t \in Threads |-> "none"]
    /\ late = [t \in Threads |-> FALSE]

WdlInit ==
    /\ registered \in BOOLEAN
    /\ wdlFile \in {"ok", "missing", "corrupt"}
    /\ tbValue \in WDLScores
    /\ ready = FALSE
    /\ baseAddress = FALSE
    /\ precomp = "null"
    /\ TB_mutex = NoThread
    /\ initCalls = 0
    /\ initOk = 0
    /\ pc = [t \in Threads |-> "lookup"]
    /\ success = [t \in Threads |-> 1]
    /\ result = [t \in Threads |-> NoResult]
    /\ torn = [t \in Threads |-> FALSE]
    /\ seenReady = [t \in Threads |-> "none"]
    /\ late = [t \in Threads |-> FALSE]

\* the call of thread u found the entry (1145) and returned with *success = 0:
\* its entry->init failed (1158-1161)
InitHasFailed(u) == registered /\ pc[u] = "done" /\ success[u] = 0

\* return from probe_wdl_table with *success = 0
WdlFail(t) ==
    /\ success' = [success EXCEPT ![t] = 0]
    /\ result' = [result EXCEPT ![t] = WDLDraw]
    /\ pc' = [pc EXCEPT ![t] = "done"]

\* tbprobe.cpp:1145-1149  entry = WDLHash[key]; if (!entry) { *success = 0; ... }
wdl_lookup(t) ==
    /\ pc[t] = "lookup"
    /\ UNCHANGED notWdl
    /\ late' = [late EXCEPT ![t] = \E u \in Threads \ {t} : InitHasFailed(u)]
    /\ IF registered
         THEN /\ pc' = [pc EXCEPT ![t] = "load_ready"]
              /\ UNCHANGED <<success, result>>
         ELSE WdlFail(t)
    /\ UNCHANGED <<registered, wdlFile, tbValue, ready, baseAddress, precomp,
                   TB_mutex, initCalls, initOk, torn, seenReady>>

\* tbprobe.cpp:1154  if (!entry->ready.load(std::memory_order_acquire))
wdl_load_ready(t) ==
    /\ pc[t] = "load_ready"
    /\ UNCHANGED notWdl
    /\ UNCHANGED late
    /\ pc' = [pc EXCEPT ![t] = IF ready THEN "probe_table" ELSE "lock"]
    /\ seenReady' = [seenReady EXCEPT ![t] = IF ready THEN "acquire" ELSE @]
    /\ UNCHANGED <<registered, wdlFile, tbValue, ready, baseAddress, precomp,
                   TB_mutex, initCalls, initOk, success, result, torn>>

\* tbprobe.cpp:1155  std::unique_lock<Mutex> lk(TB_mutex);
wdl_lock(t) ==
    /\ pc[t] = "lock"
    /\ UNCHANGED notWdl
    /\ UNCHANGED late
    /\ TB_mutex = NoThread
    /\ TB_mutex' = t
    /\ pc' = [pc EXCEPT ![t] = "recheck"]
    /\ UNCHANGED <<registered, wdlFile, tbValue, ready, baseAddress, precomp,
                   initCalls, initOk, success, result, torn, seenReady>>

\* A recheck that does not look at ready (used to test the properties).
RecheckTarget_Blind(isReady) == "init"

\* tbprobe.cpp:1156  if (!entry->ready.load(std::memory_order_relaxed))
RecheckTarget(isReady) == IF isReady THEN "unlock" ELSE "init"

wdl_recheck(t) ==
    /\ pc[t] = "recheck"
    /\ UNCHANGED notWdl
    /\ UNCHANGED late
    /\ pc' = [pc EXCEPT ![t] = RecheckTarget(ready)]
    /\ seenReady' = [seenReady EXCEPT ![t] = IF ready THEN "relaxed" ELSE @]
    /\ UNCHANGED <<registered, wdlFile, tbValue, ready, baseAddress, precomp,
                   TB_mutex, initCalls, initOk, success, result, torn>>

\* tbprobe.cpp:1158 -> WDLEntry::init, 1046-1048: TBFile(fname).map(...).
\* map() leaves baseAddress = nullptr when the file is not found or its magic
\* is wrong (321-327, 366-374); init then returns false, probe_wdl_table sets
\* *success = 0 and returns (1159-1161), which releases the unique_lock.
wdl_init_map(t) ==
    /\ pc[t] = "init"
    /\ UNCHANGED notWdl
    /\ UNCHANGED late
    /\ initCalls' = initCalls + 1
    /\ IF wdlFile = "ok"
         THEN /\ baseAddress' = TRUE
              /\ pc' = [pc EXCEPT ![t] = "do_init"]
              /\ UNCHANGED <<TB_mutex, success, result, precomp>>
         ELSE /\ baseAddress' = FALSE
              /\ TB_mutex' = NoThread
              /\ WdlFail(t)
              /\ UNCHANGED precomp
    /\ UNCHANGED <<registered, wdlFile, tbValue, ready, initOk, torn, seenReady>>

\* WDLEntry::do_init, tbprobe.cpp:996-999: precomp = new PairsData(), the
\* fields of which are filled by the rest of do_init.
wdl_do_init_alloc(t) ==
    /\ pc[t] = "do_init"
    /\ UNCHANGED notWdl
    /\ UNCHANGED late
    /\ precomp' = "partial"
    /\ pc' = [pc EXCEPT ![t] = "do_init_fill"]
    /\ UNCHANGED <<registered, wdlFile, tbValue, ready, baseAddress, TB_mutex,
                   initCalls, initOk, success, result, torn, seenReady>>

\* WDLEntry::do_init, tbprobe.cpp:1001-1041, then init returns true (1051).
wdl_do_init_fill(t) ==
    /\ pc[t] = "do_init_fill"
    /\ UNCHANGED notWdl
    /\ UNCHANGED late
    /\ precomp' = "parsed"
    /\ initOk' = initOk + 1
    /\ pc' = [pc EXCEPT ![t] = "store_ready"]
    /\ UNCHANGED <<registered, wdlFile, tbValue, ready, baseAddress, TB_mutex,
                   initCalls, success, result, torn, seenReady>>

\* tbprobe.cpp:1163  entry->ready.store(1, std::memory_order_release);
wdl_store_ready(t) ==
    /\ pc[t] = "store_ready"
    /\ UNCHANGED notWdl
    /\ UNCHANGED late
    /\ ready' = TRUE
    /\ pc' = [pc EXCEPT ![t] = "unlock"]
    /\ UNCHANGED <<registered, wdlFile, tbValue, baseAddress, precomp, TB_mutex,
                   initCalls, initOk, success, result, torn, seenReady>>

\* tbprobe.cpp:1165  end of the scope of lk
wdl_unlock(t) ==
    /\ pc[t] = "unlock"
    /\ UNCHANGED notWdl
    /\ UNCHANGED late
    /\ TB_mutex' = NoThread
    /\ pc' = [pc EXCEPT ![t] = "probe_table"]
    /\ UNCHANGED <<registered, wdlFile, tbValue, ready, baseAddress, precomp,
                   initCalls, initOk, success, result, torn, seenReady>>

\* tbprobe.cpp:1169  return (WDLScore)probe_table(pos, entry);
\* probe_table reads entry->piece/pawn .precomp and decodes from it.  Reading
\* it while it is not completely initialised is undefined: any score may come
\* back.
wdl_probe_table(t) ==
    /\ pc[t] = "probe_table"
    /\ UNCHANGED notWdl
    /\ UNCHANGED late
    /\ IF precomp = "parsed"
         THEN /\ result' = [result EXCEPT ![t] = tbValue]
              /\ UNCHANGED torn
         ELSE /\ \E v \in WDLScores : result' = [result EXCEPT ![t] = v]
              /\ torn' = [torn EXCEPT ![t] = TRUE]
    /\ pc' = [pc EXCEPT ![t] = "done"]
    /\ UNCHANGED <<registered, wdlFile, tbValue, ready, baseAddress, precomp,
                   TB_mutex, initCalls, initOk, success, seenReady>>

probe_wdl_table(t) ==
    \/ wdl_lookup(t)
    \/ wdl_load_ready(t)
    \/ wdl_lock(t)
    \/ wdl_recheck(t)
    \/ wdl_init_map(t)
    \/ wdl_do_init_alloc(t)
    \/ wdl_do_init_fill(t)
    \/ wdl_store_ready(t)
    \/ wdl_unlock(t)
    \/ wdl_probe_table(t)

(***************************************************************************)
(* DTZ list (std::list<DTZEntry> DTZTable) and probe_dtz_table.            *)
(*                                                                         *)
(* A material m has two keys, one per colour; they are equal when the      *)
(* material is symmetric.  Material 0 stands for a material with no WDL    *)
(* entry (WDLHash[key] = nullptr).                                         *)
(***************************************************************************)
NumMaterials == 66
Materials    == 1..NumMaterials
Symmetric(m) == m % 3 = 0
KeyW(m)      == 2 * m
KeyB(m)      == IF Symmetric(m) THEN 2 * m ELSE 2 * m + 1
KeysOf(m)    == {KeyW(m), KeyB(m)}
MaterialOf(key) == key \div 2

\* tbprobe.cpp:1218  if (DTZTable.size() > 64)
DTZ_MAX == 64

\* Lists of at most this length are probed for any material they hold;
\* longer lists for their front material, a new material or material 0.
ReprobeLen == 3

NoEntry == [id |-> -1, key |-> -1, key2 |-> -1, base |-> 0]

\* Reading DTZTable.front() of an empty list is undefined: the key read may
\* or may not equal the probed key, the baseAddress read may or may not be null.
GarbageEntry == [id |-> -2, key |-> -2, key2 |-> -2, base |-> -2]

NoOut == [key |-> -1, success |-> 1, handed |-> NoEntry, ub |-> FALSE]

DtzIdle ==
    /\ DTZTable = <<>>
    /\ dtzFiles = {}
    /\ dtzOut = NoOut

DtzParIdle ==
    /\ dpc = [t \in Threads |-> "idle"]
    /\ dkey = [t \in Threads |-> 0]
    /\ dsuccess = [t \in Threads |-> 1]
    /\ dit = [t \in Threads |-> -1]
    /\ dseen = [t \in Threads |-> <<>>]
    /\ handed = [t \in Threads |-> NoEntry]
    /\ dcalls = [t \in Threads |-> 0]
    /\ nextId = 0

\* tbprobe.cpp:1176, 1180, 1187  e.key == key || e.key2 == key
Matches(e, key) == e.key = key \/ e.key2 = key

\* tbprobe.cpp:1179-1181  the first position of the list whose entry matches, 0 if none
FindEntry(list, key) ==
    IF \E i \in 1..Len(list) : Matches(list[i], key)
      THEN CHOOSE i \in 1..Len(list) :
               /\ Matches(list[i], key)
               /\ \A j \in 1..(i - 1) : ~Matches(list[j], key)
      ELSE 0

\* a move to the front that leaves the element where it was as well
Splice_Copy(list, i) == <<list[i]>> \o list

\* tbprobe.cpp:1182  DTZTable.splice(DTZTable.begin(), DTZTable, it)
Splice(list, i) ==
    <<list[i]>> \o SubSeq(list, 1, i - 1) \o SubSeq(list, i + 1, Len(list))

\* tbprobe.cpp:1179-1184
SpliceFound(list, key) ==
    IF FindEntry(list, key) = 0 THEN list ELSE Splice(list, FindEntry(list, key))

\* tbprobe.cpp:1197-1204, DTZEntry::DTZEntry (431-449): the entry is built from
\* the WDL entry's material, key = wdlKeys[0], key2 = wdlKeys[1], baseAddress = 0
NewEntry(key, id) ==
    [id |-> id, key |-> KeyW(MaterialOf(key)), key2 |-> KeyB(MaterialOf(key)), base |-> 0]

\* DTZEntry::init (1128-1136) on the front entry: TBFile::map leaves
\* baseAddress = nullptr when the file is missing or its magic is wrong
InitFront(list, m, files) ==
    [list EXCEPT ![1].base = IF m \in files THEN m ELSE 0]

\* tbprobe.cpp:1218-1219  if (DTZTable.size() > 64) DTZTable.pop_back();
Trim(list) ==
    IF Len(list) > DTZ_MAX THEN SubSeq(list, 1, Len(list) - 1) ELSE list

InList(list, m) == \E i \in 1..Len(list) : MaterialOf(list[i].key) = m

\* the smallest material with a WDL entry that the list does not hold
FreshMaterial(list) ==
    IF \E m \in Materials : ~InList(list, m)
      THEN CHOOSE m \in Materials : ~InList(list, m) /\ \A n \in 1..(m - 1) : InList(list, n)
      ELSE 0

\* the materials a sequential probe is made for
ProbedMaterials(list) ==
    {0, FreshMaterial(list)}
      \cup (IF list = <<>> THEN {} ELSE {MaterialOf(list[1].key)})
      \cup (IF Len(list) <= ReprobeLen THEN {m \in Materials : InList(list, m)} ELSE {})

(***************************************************************************)
(* probe_dtz_table, tbprobe.cpp:1172-1229, as one step (no other thread).  *)
(* g and b are what the undefined reads of an empty list's front give: g   *)
(* for "the key matches", b for "baseAddress is not null".                 *)
(***************************************************************************)
probe_dtz_table(key, g, b) ==
    LET m       == MaterialOf(key)
        empty   == DTZTable = <<>>
        match1  == IF empty THEN g ELSE Matches(DTZTable[1], key)          \* 1176
        spliced == IF match1 THEN DTZTable ELSE SpliceFound(DTZTable, key) \* 1179-1184
        match2  == IF spliced = <<>> THEN g ELSE Matches(spliced[1], key)  \* 1187
        pushed  == <<NewEntry(key, 0)>> \o spliced                         \* 1204
        inited  == InitFront(pushed, m, dtzFiles)                          \* 1206
        out(list, succ, h, u) ==
            /\ DTZTable' = list
            /\ dtzOut' = [key |-> key, success |-> succ, handed |-> h, ub |-> u]
        \* 1223-1228 on a list whose front matched
        decode(list) ==
            IF list = <<>>
              THEN IF b THEN out(list, 1, GarbageEntry, TRUE) ELSE out(list, 0, NoEntry, TRUE)
              ELSE IF list[1].base = 0
                     THEN out(list, 0, NoEntry, FALSE)
                     ELSE out(list, 1, list[1], FALSE)
    IN  IF match1 \/ match2
          THEN decode(spliced)
          ELSE IF m \notin Materials                                       \* 1189-1193
                 THEN out(spliced, 0, NoEntry, empty)
                 ELSE IF inited[1].base = 0                                \* 1206-1214
                        THEN out(inited, 0, NoEntry, empty)
                        ELSE decode(Trim(inited))                          \* 1218-1228

DtzFileSets ==
    { {}, Materials, {m \in Materials : m % 2 = 0}, {m \in Materials : m > 2} }

DtzSeqInit ==
    /\ DTZTable = <<>>
    /\ dtzFiles \in DtzFileSets
    /\ dtzOut = NoOut

DtzSeqProbe ==
    \E m \in ProbedMaterials(DTZTable) : \E key \in KeysOf(m) :
      \E g \in (IF DTZTable = <<>> THEN BOOLEAN ELSE {FALSE}) :
        \E b \in (IF DTZTable = <<>> /\ g THEN BOOLEAN ELSE {FALSE}) :
          /\ probe_dtz_table(key, g, b)
          /\ UNCHANGED <<dtzFiles, dtzParVars, notDtz>>

(***************************************************************************)
(* probe_dtz_table called by several threads: the function takes no lock,  *)
(* so its statements interleave.  ParMaterials are the materials probed.   *)
(***************************************************************************)
MaxDtzCalls  == 1
ParMaterials == 0..2

notDtzPar == <<wdlVars, dtzFiles, dtzOut, probeVars, encVars, decVars, encDtzVars, rootVars, initVars, callVars>>

\* The list holds the entry of material 1 from an earlier probe (a list that
\* is still empty is the matter of SpecDtzSeq).
DtzParInit ==
    /\ dtzFiles \in {{}, {1}, {1, 2}}
    /\ DTZTable = InitFront(<<NewEntry(KeyW(1), 0)>>, 1, dtzFiles)
    /\ dtzOut = NoOut
    /\ dpc = [t \in Threads |-> "idle"]
    /\ dkey = [t \in Threads |-> 0]
    /\ dsuccess = [t \in Threads |-> 1]
    /\ dit = [t \in Threads |-> -1]
    /\ dseen = [t \in Threads |-> <<>>]
    /\ handed = [t \in Threads |-> NoEntry]
    /\ dcalls = [t \in Threads |-> 0]
    /\ nextId = 1

DtzParFail(t) ==
    /\ dsuccess' = [dsuccess EXCEPT ![t] = 0]
    /\ dpc' = [dpc EXCEPT ![t] = "idle"]

\* probe_dtz (1454-1455) sets *success = 1 and reaches probe_dtz_table (1356)
dtz_call(t) ==
    /\ dpc[t] = "idle"
    /\ dcalls[t] < MaxDtzCalls
    /\ \E m \in ParMaterials : \E key \in KeysOf(m) : dkey' = [dkey EXCEPT ![t] = key]
    /\ dcalls' = [dcalls EXCEPT ![t] = @ + 1]
    /\ dsuccess' = [dsuccess EXCEPT ![t] = 1]
    /\ handed' = [handed EXCEPT ![t] = NoEntry]
    /\ dpc' = [dpc EXCEPT ![t] = "front1"]
    /\ UNCHANGED <<DTZTable, dit, dseen, nextId, notDtzPar>>

\* tbprobe.cpp:1176  if (DTZTable.front().key != key && DTZTable.front().key2 != key)
dtz_front1(t) ==
    /\ dpc[t] = "front1"
    /\ \E g \in (IF DTZTable = <<>> THEN BOOLEAN ELSE {Matches(DTZTable[1], dkey[t])}) :
          dpc' = [dpc EXCEPT ![t] = IF g THEN "base" ELSE "scan"]
    /\ UNCHANGED <<DTZTable, dkey, dsuccess, dit, dseen, handed, dcalls, nextId, notDtzPar>>

\* tbprobe.cpp:1179-1181  the loop that looks for the entry
dtz_scan(t) ==
    /\ dpc[t] = "scan"
    /\ LET i == FindEntry(DTZTable, dkey[t])
       IN  IF i = 0
             THEN /\ dpc' = [dpc EXCEPT ![t] = "front2"]
                  /\ UNCHANGED dit
             ELSE /\ dpc' = [dpc EXCEPT ![t] = "splice"]
                  /\ dit' = [dit EXCEPT ![t] = DTZTable[i].id]
    /\ UNCHANGED <<DTZTable, dkey, dsuccess, dseen, handed, dcalls, nextId, notDtzPar>>

\* tbprobe.cpp:1182  DTZTable.splice(DTZTable.begin(), DTZTable, it)
dtz_splice(t) ==
    /\ dpc[t] = "splice"
    /\ LET at == {i \in 1..Len(DTZTable) : DTZTable[i].id = dit[t]}
       IN  DTZTable' = IF at = {} THEN DTZTable
                       ELSE Splice(DTZTable, CHOOSE i \in at : TRUE)
    /\ dpc' = [dpc EXCEPT ![t] = "front2"]
    /\ UNCHANGED <<dkey, dsuccess, dit, dseen, handed, dcalls, nextId, notDtzPar>>

\* tbprobe.cpp:1187  if (DTZTable.front().key != key && DTZTable.front().key2 != key)
dtz_front2(t) ==
    /\ dpc[t] = "front2"
    /\ \E g \in (IF DTZTable = <<>> THEN BOOLEAN ELSE {Matches(DTZTable[1], dkey[t])}) :
          dpc' = [dpc EXCEPT ![t] = IF g THEN "base" ELSE "hash"]
    /\ UNCHANGED <<DTZTable, dkey, dsuccess, dit, dseen, handed, dcalls, nextId, notDtzPar>>

\* tbprobe.cpp:1189-1193  WDLEntry* wdlEntry = WDLHash[key]; if (!wdlEntry) ...
dtz_hash(t) ==
    /\ dpc[t] = "hash"
    /\ IF MaterialOf(dkey[t]) \in Materials
         THEN /\ dpc' = [dpc EXCEPT ![t] = "push"]
              /\ UNCHANGED dsuccess
         ELSE DtzParFail(t)
    /\ UNCHANGED <<DTZTable, dkey, dit, dseen, handed, dcalls, nextId, notDtzPar>>

\* tbprobe.cpp:1204  DTZTable.push_front(...): the node is built and the head read
dtz_push_read(t) ==
    /\ dpc[t] = "push"
    /\ dseen' = [dseen EXCEPT ![t] = DTZTable]
    /\ dpc' = [dpc EXCEPT ![t] = "push_link"]
    /\ UNCHANGED <<DTZTable, dkey, dsuccess, dit, handed, dcalls, nextId, notDtzPar>>

\* tbprobe.cpp:1204  DTZTable.push_front(...): the node is linked in front of
\* the head that was read
dtz_push_link(t) ==
    /\ dpc[t] = "push_link"
    /\ DTZTable' = <<NewEntry(dkey[t], nextId)>> \o dseen[t]
    /\ nextId' = nextId + 1
    /\ dpc' = [dpc EXCEPT ![t] = "init"]
    /\ UNCHANGED <<dkey, dsuccess, dit, dseen, handed, dcalls, notDtzPar>>

\* tbprobe.cpp:1206-1214  if (!DTZTable.front().init(fname)) { *success = 0; return 0; }
dtz_init(t) ==
    /\ dpc[t] = "init"
    /\ DTZTable' = InitFront(DTZTable, MaterialOf(dkey[t]), dtzFiles)
    /\ IF MaterialOf(dkey[t]) \in dtzFiles
         THEN /\ dpc' = [dpc EXCEPT ![t] = "trim"]
              /\ UNCHANGED dsuccess
         ELSE DtzParFail(t)
    /\ UNCHANGED <<dkey, dit, dseen, handed, dcalls, nextId, notDtzPar>>

\* tbprobe.cpp:1218-1219  if (DTZTable.size() > 64) DTZTable.pop_back();
dtz_trim(t) ==
    /\ dpc[t] = "trim"
    /\ DTZTable' = Trim(DTZTable)
    /\ dpc' = [dpc EXCEPT ![t] = "base"]
    /\ UNCHANGED <<dkey, dsuccess, dit, dseen, handed, dcalls, nextId, notDtzPar>>

\* tbprobe.cpp:1223-1226  if (!DTZTable.front().baseAddress) { *success = 0; return 0; }
dtz_base(t) ==
    /\ dpc[t] = "base"
    /\ \E b \in (IF DTZTable = <<>> THEN BOOLEAN ELSE {DTZTable[1].base # 0}) :
          IF b THEN /\ dpc' = [dpc EXCEPT ![t] = "probe_table"]
                    /\ UNCHANGED dsuccess
               ELSE DtzParFail(t)
    /\ UNCHANGED <<DTZTable, dkey, dit, dseen, handed, dcalls, nextId, notDtzPar>>

\* tbprobe.cpp:1228  probe_table(pos, &DTZTable.front(), wdl, success)
dtz_probe_table(t) ==
    /\ dpc[t] = "probe_table"
    /\ handed' = [handed EXCEPT ![t] = IF DTZTable = <<>> THEN GarbageEntry ELSE DTZTable[1]]
    /\ dpc' = [dpc EXCEPT ![t] = "decode"]
    /\ UNCHANGED <<DTZTable, dkey, dsuccess, dit, dseen, dcalls, nextId, notDtzPar>>

\* probe_table (628-859) decodes from the entry it was handed and returns
dtz_decode(t) ==
    /\ dpc[t] = "decode"
    /\ dpc' = [dpc EXCEPT ![t] = "idle"]
    /\ UNCHANGED <<DTZTable, dkey, dsuccess, dit, dseen, handed, dcalls, nextId, notDtzPar>>

probe_dtz_table_par(t) ==
    \/ dtz_call(t)
    \/ dtz_front1(t)
    \/ dtz_scan(t)
    \/ dtz_splice(t)
    \/ dtz_front2(t)
    \/ dtz_hash(t)
    \/ dtz_push_read(t)
    \/ dtz_push_link(t)
    \/ dtz_init(t)
    \/ dtz_trim(t)
    \/ dtz_base(t)
    \/ dtz_probe_table(t)
    \/ dtz_decode(t)

(***************************************************************************)
(* probe_ab, probe_dtz_no_ep, probe_dtz and Tablebases::probe_wdl           *)
(* (tbprobe.cpp:1249-1538, 1661-1735) over explicit positions.             *)
(*                                                                         *)
(* A position is a record                                                  *)
(*   moves  the pseudo-legal moves in generation order, each               *)
(*          [kind, legal, child] with kind "cap" (capture other than en     *)
(*          passant), "ep", "pawn" (pawn move without capture) or "quiet"   *)
(*   quiet  values of further legal quiet piece moves whose successors are *)
(*          not spelled out (a set: empty when there are none)             *)
(*   chk    pos.checkers() is not empty                                    *)
(*   tb     which tables hold the position: "both", "wrong" (the DTZ table *)
(*          stores the other side to move), "nodtz" (no .rtbz file) or     *)
(*          "none" (no .rtbw file either); "kvk" for a position of the two *)
(*          kings alone, which no table holds                              *)
(* The tables hold what a tablebase generator writes: the value of the     *)
(* position without en-passant rights, counted as the comments at          *)
(* 1426-1451 and 1656-1660 say.                                            *)
(***************************************************************************)
Abs(n) == IF n < 0 THEN -n ELSE n

\* WDL class of a distance-to-zero value (1428-1433)
WdlOfDtz(d) ==
    IF d = 0 THEN WDLDraw
    ELSE IF d > 100 THEN WDLCursedWin
    ELSE IF d > 0 THEN WDLWin
    ELSE IF d < -100 THEN WDLCursedLoss
    ELSE WDLLoss

wdl_to_dtz(w) == <<-1, -101, 0, 101, 1>>[w + 3]

\* a value the side to move prefers has the larger rank: a quicker win, a
\* slower loss
Rank(d) == WdlOfDtz(d) * 1000 - d

BestOf(S) == CHOOSE d \in S : \A e \in S : Rank(d) >= Rank(e)

IsZeroing(kind) == kind \in {"cap", "ep", "pawn"}

\* value for the mover of a move to a successor of value cd (for its mover)
MoveValue(kind, cd) ==
    IF IsZeroing(kind) THEN wdl_to_dtz(-WdlOfDtz(cd))
    ELSE IF cd = 0 THEN 0
    ELSE IF cd < 0 THEN 1 - cd
    ELSE -(cd + 1)

RECURSIVE TrueDtz(_)
\* value of the position without en-passant rights
TrueDtz(p) ==
    LET vals == p.quiet \cup
                { MoveValue(p.moves[i].kind, TrueDtz(p.moves[i].child)) :
                    i \in { j \in 1..Len(p.moves) :
                              p.moves[j].legal /\ p.moves[j].kind # "ep" } }
    IN  IF vals = {} THEN (IF p.chk THEN -1 ELSE 0) ELSE BestOf(vals)

HasEp(p) == \E i \in 1..Len(p.moves) : p.moves[i].kind = "ep"

\* the WDL table's value of the position (probe_table + map_score<WDLEntry>)
WdlStored(p) == WdlOfDtz(TrueDtz(p))

\* DTZ is stored in plies when the flag of the class is set (616-620);
\* a table holding a position on the edge of the 50-move rule has it set
\* (1435-1438)
InPlies(p, wdl) ==
    /\ wdl \in {WDLWin, WDLLoss}
    /\ plyTables \/ Abs(TrueDtz(p)) = 100

\* the DTZ table's byte for the position
DtzStored(p, wdl) ==
    LET d == Abs(TrueDtz(p))
        a == IF d > 100 THEN d - 101 ELSE IF d > 0 THEN d - 1 ELSE 0
    IN  IF InPlies(p, wdl) THEN a ELSE a \div 2

map_score(p, value, wdl) ==
    IF InPlies(p, wdl) THEN value ELSE value * 2

\* Every probe hands on *success (s) and the record of the table lookups made
\* so far (t): what each lookup left in *success, in the order of the lookups.

\* the element of a set of one element: Only({ e : r \in {call} }) is e with
\* r the value of the call, which is made once
Only(S) == CHOOSE x \in S : TRUE

Failed_Kept(v, t) == [v |-> v, s |-> 1, t |-> t]

\* 1279-1280, 1294-1295 and the like: the return made when *success is 0
Failed(v, t) == [v |-> v, s |-> 0, t |-> t]

\* probe_wdl_table seen from the caller: the value and *success
wdl_table(p, s, t) ==
    IF p.tb = "kvk" THEN [v |-> WDLDraw, s |-> s, t |-> t]          \* 1142-1143
    ELSE IF p.tb = "none" THEN [v |-> WDLDraw, s |-> 0, t |-> Append(t, 0)]
    ELSE [v |-> WdlStored(p), s |-> s, t |-> Append(t, s)]

\* probe_dtz_table seen from the caller
dtz_table(p, wdl, s, t) ==
    IF p.tb \in {"none", "nodtz", "kvk"} THEN [v |-> 0, s |-> 0, t |-> Append(t, 0)]
    ELSE IF p.tb = "wrong" THEN [v |-> 0, s |-> -1, t |-> Append(t, -1)]
    ELSE [v |-> map_score(p, DtzStored(p, wdl), wdl), s |-> s, t |-> Append(t, s)]

RECURSIVE probe_ab(_, _, _, _, _), probe_ab_loop(_, _, _, _, _, _)

\* 1292-1303: the table value against the best capture
probe_ab_tail(p, alpha, s, t) ==
    Only({ IF r.s = 0 THEN Failed(WDLDraw, r.t)
           ELSE IF alpha >= r.v
                THEN [v |-> alpha, s |-> 1 + (IF alpha > 0 THEN 1 ELSE 0), t |-> r.t]
                ELSE [v |-> r.v, s |-> 1, t |-> r.t] :
           r \in {wdl_table(p, s, t)} })

\* 1267-1290: the loop over the generated moves, from move i on
probe_ab_loop(p, i, alpha, beta, s, t) ==
    IF i > Len(p.moves) THEN probe_ab_tail(p, alpha, s, t)
    ELSE LET m == p.moves[i]
         IN  IF m.kind # "cap" \/ ~m.legal
             THEN probe_ab_loop(p, i + 1, alpha, beta, s, t)
             ELSE Only({ IF r.s = 0 THEN Failed(WDLDraw, r.t)
                         ELSE IF -r.v > alpha
                              THEN IF -r.v >= beta
                                   THEN [v |-> -r.v, s |-> 2, t |-> r.t]
                                   ELSE probe_ab_loop(p, i + 1, -r.v, beta, r.s, r.t)
                              ELSE probe_ab_loop(p, i + 1, alpha, beta, r.s, r.t) :
                         r \in {probe_ab(m.child, -beta, -alpha, s, t)} })

probe_ab(p, alpha, beta, s, t) == probe_ab_loop(p, 1, alpha, beta, s, t)

ZeroingDtz_Win(wdl) == 1

\* 1322, 1352: a zeroing move reaches the value
ZeroingDtz(wdl) == IF wdl = WDLWin THEN 1 ELSE 101

NoBest == 65535

RECURSIVE probe_dtz(_, _), probe_dtz_no_ep(_, _, _), dtz_win_loop(_, _, _, _, _),
          dtz_loss_loop(_, _, _, _, _, _)

\* 1364-1385: the DTZ table stores the other side and the position is won
dtz_win_loop(p, i, best, s, t) ==
    IF i > Len(p.moves) THEN [v |-> best, s |-> s, t |-> t]
    ELSE LET m == p.moves[i]
         IN  IF IsZeroing(m.kind) \/ ~m.legal
             THEN dtz_win_loop(p, i + 1, best, s, t)
             ELSE Only({ IF r.s = 0 THEN Failed(0, r.t)
                         ELSE IF -r.v > 0 /\ -r.v + 1 < best
                              THEN dtz_win_loop(p, i + 1, -r.v + 1, r.s, r.t)
                              ELSE dtz_win_loop(p, i + 1, best, r.s, r.t) :
                         r \in {probe_dtz(m.child, t)} })

\* 1403-1411: the value of one move of a lost position
dtz_loss_move(m, wdl, s, t) ==
    IF IsZeroing(m.kind)
    THEN IF wdl = WDLLoss
         THEN [v |-> -1, s |-> s, t |-> t]
         ELSE Only({ [v |-> IF a.v = WDLWin THEN 0 ELSE -101, s |-> a.s, t |-> a.t] :
                     a \in {probe_ab(m.child, WDLCursedWin, WDLWin, s, t)} })
    ELSE Only({ [v |-> -d.v - 1, s |-> d.s, t |-> d.t] :
                d \in {probe_dtz(m.child, t)} })

\* 1386-1423: the DTZ table stores the other side and the position is lost
dtz_loss_loop(p, i, wdl, best, s, t) ==
    IF i > Len(p.moves) THEN [v |-> best, s |-> s, t |-> t]
    ELSE LET m == p.moves[i]
         IN  IF ~m.legal THEN dtz_loss_loop(p, i + 1, wdl, best, s, t)
             ELSE Only({ IF r.s = 0 THEN Failed(0, r.t)
                         ELSE dtz_loss_loop(p, i + 1, wdl,
                                            IF r.v < best THEN r.v ELSE best, r.s, r.t) :
                         r \in {dtz_loss_move(m, wdl, s, t)} })

\* 1359: dtz += 100 for a cursed value
CursedOffset_None(wdl) == 0

CursedOffset(wdl) == IF wdl % 2 = 1 THEN 100 ELSE 0

\* 1356-1423
dtz_from_table(p, wdl, s, t) ==
    Only({ LET dtz == 1 + r.v + CursedOffset(wdl)
           IN  IF r.s >= 0
               THEN [v |-> IF wdl >= 0 THEN dtz ELSE -dtz, s |-> r.s, t |-> r.t]
               ELSE IF wdl > 0 THEN dtz_win_loop(p, 1, NoBest, r.s, r.t)
                    ELSE dtz_loss_loop(p, 1, wdl, -1, r.s, r.t) :
           r \in {dtz_table(p, wdl, s, t)} })

RECURSIVE dtz_pawn_loop(_, _, _, _, _)
\* 1337-1353: a pawn move that keeps the value
dtz_pawn_loop(p, i, wdl, s, t) ==
    IF i > Len(p.moves) THEN dtz_from_table(p, wdl, s, t)
    ELSE LET m == p.moves[i]
         IN  IF m.kind # "pawn" \/ ~m.legal
             THEN dtz_pawn_loop(p, i + 1, wdl, s, t)
             ELSE Only({ IF r.s = 0 THEN Failed(0, r.t)
                         ELSE IF -r.v = wdl
                              THEN [v |-> ZeroingDtz(wdl), s |-> r.s, t |-> r.t]
                              ELSE dtz_pawn_loop(p, i + 1, wdl, r.s, r.t) :
                         r \in {probe_ab(m.child, WDLLoss, -wdl + WDLCursedWin, s, t)} })

probe_dtz_no_ep(p, s, t) ==
    Only({ IF ab.s = 0 THEN Failed(0, ab.t)
           ELSE IF ab.v = WDLDraw THEN [v |-> 0, s |-> ab.s, t |-> ab.t]
           ELSE IF ab.s = 2 THEN [v |-> ZeroingDtz(ab.v), s |-> 2, t |-> ab.t]
           ELSE IF ab.v > 0 THEN dtz_pawn_loop(p, 1, ab.v, ab.s, ab.t)
           ELSE dtz_from_table(p, ab.v, ab.s, ab.t) :
           ab \in {probe_ab(p, WDLLoss, WDLWin, s, t)} })

NoEpValue == -3

RECURSIVE ep_loop(_, _, _, _, _)
\* 1477-1492 and 1687-1702: the best en-passant capture, from move i on
ep_loop(p, i, v1, s, t) ==
    IF i > Len(p.moves) THEN [v |-> v1, s |-> s, t |-> t]
    ELSE LET m == p.moves[i]
         IN  IF m.kind # "ep" \/ ~m.legal THEN ep_loop(p, i + 1, v1, s, t)
             ELSE Only({ IF r.s = 0 THEN Failed(0, r.t)
                         ELSE ep_loop(p, i + 1, IF -r.v > v1 THEN -r.v ELSE v1, r.s, r.t) :
                         r \in {probe_ab(m.child, WDLLoss, WDLWin, s, t)} })

EpFound_Always(v1) == TRUE

\* 1494 and 1704: v1 > -3, some en-passant capture was legal
EpFound(v1) == v1 > NoEpValue

\* 1512-1532 and 1708-1729: is some move other than en passant legal
HasLegalNonEp(p) ==
    \/ p.quiet # {}
    \/ \E i \in 1..Len(p.moves) : p.moves[i].kind # "ep" /\ p.moves[i].legal

dtz_ep_rule_Always(p, v, v1w) == wdl_to_dtz(v1w)

\* 1494-1535
dtz_ep_rule(p, v, v1w) ==
    LET v1 == wdl_to_dtz(v1w)
    IN  IF v < -100 THEN (IF v1 >= 0 THEN v1 ELSE v)
        ELSE IF v < 0 THEN (IF v1 >= 0 \/ v1 < -100 THEN v1 ELSE v)
        ELSE IF v > 100 THEN (IF v1 > 0 THEN v1 ELSE v)
        ELSE IF v > 0 THEN (IF v1 = 1 THEN v1 ELSE v)
        ELSE IF v1 >= 0 THEN v1
        ELSE IF HasLegalNonEp(p) THEN v ELSE v1

\* 1452-1538; t is the record of the lookups made before the call
probe_dtz(p, t) ==
    Only({ IF ~HasEp(p) THEN r
           ELSE IF r.s = 0 THEN Failed(0, r.t)
           ELSE Only({ IF e.s = 0 THEN Failed(0, e.t)
                       ELSE IF EpFound(e.v)
                            THEN [v |-> dtz_ep_rule(p, r.v, e.v), s |-> e.s, t |-> e.t]
                            ELSE [v |-> r.v, s |-> e.s, t |-> e.t] :
                       e \in {ep_loop(p, 1, NoEpValue, r.s, r.t)} }) :
           r \in {probe_dtz_no_ep(p, 1, t)} })

wdl_ep_rule_Max(p, v, v1) == IF v1 >= v THEN v1 ELSE v

\* 1704-1732
wdl_ep_rule(p, v, v1) ==
    IF v1 >= v THEN v1
    ELSE IF v = 0 /\ ~HasLegalNonEp(p) THEN v1
    ELSE v

\* 1661-1735
probe_wdl(p, t) ==
    Only({ IF ~HasEp(p) THEN r
           ELSE IF r.s = 0 THEN Failed(WDLDraw, r.t)
           ELSE Only({ IF e.s = 0 THEN Failed(WDLDraw, e.t)
                       ELSE IF EpFound(e.v)
                            THEN [v |-> wdl_ep_rule(p, r.v, e.v), s |-> e.s, t |-> e.t]
                            ELSE [v |-> r.v, s |-> e.s, t |-> e.t] :
                       e \in {ep_loop(p, 1, NoEpValue, r.s, r.t)} }) :
           r \in {probe_ab(p, WDLLoss, WDLWin, 1, t)} })

(***************************************************************************)
(* The positions handed to the probes: every position of at most two       *)
(* moves to positions without expanded moves, and every chain of two       *)
(* single moves.                                                           *)
(***************************************************************************)
MoveKinds == {"cap", "ep", "pawn", "quiet"}
LeafValues == {-101, -100, -2, 0, 2, 100, 101}
ClassValues == {-101, -2, 0, 2, 101}
InnerValues == {-100, 0, 100}

Node(ms, q, c, tb) == [moves |-> ms, quiet |-> q, chk |-> c, tb |-> tb]
Mv(k, l, c) == [kind |-> k, legal |-> l, child |-> c]

\* positions whose moves are all quiet piece moves that are not spelled out,
\* mates and stalemates
Leaves ==
    { Node(<<>>, {d}, FALSE, tb) : d \in LeafValues, tb \in {"both", "nodtz", "none"} }
    \cup { Node(<<>>, {}, c, tb) : c \in BOOLEAN, tb \in {"both", "wrong"} }

ChainLeaves ==
    { Node(<<>>, {d}, FALSE, "both") : d \in LeafValues }
    \cup { Node(<<>>, {}, c, "both") : c \in BOOLEAN }
    \cup { Node(<<>>, {0}, FALSE, "none") }

ClassLeaves == { Node(<<>>, {d}, FALSE, "both") : d \in ClassValues }

\* every move of a position of a one-sided table that stores the other side
\* is spelled out
InnerShapes ==
    { <<{}, "wrong">>, <<{}, "none">> }
    \cup { <<q, tb>> : q \in {{}} \cup {{d} : d \in InnerValues},
                       tb \in {"both", "nodtz"} }

MidShapes == { <<{}, "both">>, <<{0}, "both">>, <<{}, "wrong">>, <<{}, "nodtz">>,
               <<{}, "none">> }

\* a move that leaves the own king in check is never made: its successor
\* does not matter
IllegalMoves == { Mv(k, FALSE, Node(<<>>, {0}, FALSE, "none")) : k \in MoveKinds }

\* only the position probed has en-passant rights: a capture or a piece
\* move leaves none
MovesTo(cs, kinds) == { Mv(k, TRUE, c) : k \in kinds, c \in cs }

MidNodes ==
    { Node(<<m>>, sh[1], FALSE, sh[2]) :
        m \in MovesTo(ChainLeaves, MoveKinds \ {"ep"}), sh \in MidShapes }

WideMoves == MovesTo(ClassLeaves, MoveKinds) \cup IllegalMoves

Positions ==
    Leaves
    \cup { Node(<<m>>, sh[1], FALSE, sh[2]) :
             m \in MovesTo(Leaves, MoveKinds) \cup IllegalMoves, sh \in InnerShapes }
    \cup { Node(<<m, n>>, sh[1], FALSE, sh[2]) :
             m \in WideMoves, n \in WideMoves, sh \in InnerShapes }
    \cup { Node(<<m>>, sh[1], FALSE, sh[2]) :
             m \in MovesTo(MidNodes, MoveKinds), sh \in MidShapes }

ProbeIdle ==
    /\ ppos = Node(<<>>, {}, FALSE, "none")
    /\ plyTables = TRUE
    /\ pcalled = {}
    /\ pwdl = [v |-> 0, s |-> 1, t |-> <<>>]
    /\ pdtz = [v |-> 0, s |-> 1, t |-> <<>>]

ProbeInit ==
    /\ ppos \in Positions
    /\ plyTables \in BOOLEAN
    /\ pcalled = {}
    /\ pwdl = [v |-> 0, s |-> 1, t |-> <<>>]
    /\ pdtz = [v |-> 0, s |-> 1, t |-> <<>>]

\* Tablebases::probe_wdl(pos, &success)
call_probe_wdl ==
    /\ "wdl" \notin pcalled
    /\ pcalled' = pcalled \cup {"wdl"}
    /\ pwdl' = probe_wdl(ppos, <<>>)
    /\ UNCHANGED <<ppos, plyTables, pdtz>>
    /\ UNCHANGED notProbe

\* probe_dtz(pos, &success)
call_probe_dtz ==
    /\ "dtz" \notin pcalled
    /\ pcalled' = pcalled \cup {"dtz"}
    /\ pdtz' = probe_dtz(ppos, <<>>)
    /\ UNCHANGED <<ppos, plyTables, pwdl>>
    /\ UNCHANGED notProbe

(***************************************************************************)
(* The root probes.  rootMoves lists the legal moves of the root position  *)
(* (.move is the place of the move in the position's move list); the       *)
(* StateInfo chain of the game is a sequence, the root's StateInfo last.   *)
(***************************************************************************)
NoScore == -32001

RootMove(i, sc) == [move |-> i, score |-> sc]

RECURSIVE RootMovesFrom(_, _)
RootMovesFrom(p, i) ==
    IF i > Len(p.moves) THEN <<>>
    ELSE (IF p.moves[i].legal THEN <<RootMove(i, NoScore)>> ELSE <<>>)
         \o RootMovesFrom(p, i + 1)

RootMovesOf(p) == RootMovesFrom(p, 1)

StateInfo(k, r, n) == [key |-> k, rule50 |-> r, pliesFromNull |-> n]

Min(a, b) == IF a < b THEN a ELSE b

RECURSIVE rep_scan(_, _, _, _, _)
\* 1750-1757: the do-while loop; stp is the place of the state last compared
rep_scan(h, k, stp, i, e) ==
    LET stp2 == stp - 2
    IN  IF h[stp2].key = h[k].key THEN TRUE
        ELSE IF i + 2 <= e THEN rep_scan(h, k, stp2, i + 2, e)
        ELSE FALSE

RECURSIVE has_repeated(_, _)
\* 1739-1760, st = h[k]
has_repeated(h, k) ==
    LET e == Min(h[k].rule50, h[k].pliesFromNull)
    IN  IF e < 4 THEN FALSE
        ELSE IF rep_scan(h, k, k - 2, 4, e) THEN TRUE
        ELSE has_repeated(h, k - 1)

\* 1785-1790: generate<LEGAL> finds no move
NoLegalMove(p) ==
    /\ p.quiet = {}
    /\ \A i \in 1..Len(p.moves) : ~p.moves[i].legal

\* 1781-1803: the score of a root move; s is *success before it
root_score(p, m, dtz, s, t) ==
    LET c == m.child
    IN  IF c.chk /\ dtz > 0 /\ NoLegalMove(c)
        THEN [v |-> 1, s |-> s, t |-> t]
        ELSE IF ~IsZeroing(m.kind)
             THEN Only({ [v |-> IF -r.v > 0 THEN -r.v + 1
                                ELSE IF -r.v < 0 THEN -r.v - 1 ELSE 0,
                          s |-> r.s, t |-> r.t] :
                         r \in {probe_dtz(c, t)} })
             ELSE Only({ [v |-> wdl_to_dtz(-r.v), s |-> r.s, t |-> r.t] :
                         r \in {probe_wdl(c, t)} })

RECURSIVE root_loop(_, _, _, _, _, _)
\* 1780-1812: ok is FALSE when the loop was left by return false
root_loop(p, rm, i, dtz, s, t) ==
    IF i > Len(rm) THEN [ok |-> TRUE, rm |-> rm, t |-> t]
    ELSE Only({ IF r.s = 0 THEN [ok |-> FALSE, rm |-> rm, t |-> r.t]
                ELSE root_loop(p, [rm EXCEPT ![i].score = r.v], i + 1, dtz, r.s, r.t) :
                r \in {root_score(p, p.moves[rm[i].move], dtz, s, t)} })

\* rootMoves[j++] = rootMoves[i] for the moves whose score is from lo to
\* hi, then resize(j)
Keep(rm, lo, hi) ==
    LET Test(e) == lo <= e.score /\ e.score <= hi
    IN  SelectSeq(rm, Test)

RECURSIVE MinPositive(_, _, _), MinScore(_, _, _)
\* 1844-1849
MinPositive(rm, i, best) ==
    IF i > Len(rm) THEN best
    ELSE MinPositive(rm, i + 1,
                     IF rm[i].score > 0 /\ rm[i].score < best THEN rm[i].score ELSE best)

\* 1867-1872
MinScore(rm, i, best) ==
    IF i > Len(rm) THEN best
    ELSE MinScore(rm, i + 1, IF rm[i].score < best THEN rm[i].score ELSE best)

\* 1820-1825
RootWdl(dtz, cnt50) ==
    IF dtz > 0 THEN (IF dtz + cnt50 <= 100 THEN 2 ELSE 1)
    ELSE IF dtz < 0 THEN (IF -dtz + cnt50 <= 100 THEN -2 ELSE -1)
    ELSE 0

\* 1828-1836: the score reported, as a term over WDL_to_value and PawnValueEg
RootScore(dtz, cnt50) ==
    LET wdl == RootWdl(dtz, cnt50)
    IN  IF wdl = 1 /\ dtz <= 100
        THEN [of |-> "PawnValueEg/200", n |-> 200 - dtz - cnt50]
        ELSE IF wdl = -1 /\ dtz >= -100
             THEN [of |-> "PawnValueEg/200", n |-> -(200 + dtz - cnt50)]
             ELSE [of |-> "WDL_to_value", n |-> wdl]

WinMax_Best(best, cnt50, repeated) == best

\* 1851-1856
WinMax(best, cnt50, repeated) ==
    IF ~repeated /\ best + cnt50 <= 99 THEN 99 - cnt50 ELSE best

LossTryAll_Never(best, cnt50) == FALSE

\* 1874-1876
LossTryAll(best, cnt50) == -best * 2 + cnt50 < 100

\* 1838-1892
root_filter(rm, dtz, cnt50, repeated) ==
    IF dtz > 0
    THEN LET max == WinMax(MinPositive(rm, 1, NoBest), cnt50, repeated)
         IN  Keep(rm, 1, max)
    ELSE IF dtz < 0
         THEN LET best == MinScore(rm, 1, 0)
              IN  IF LossTryAll(best, cnt50) THEN rm ELSE Keep(rm, best, best)
         ELSE Keep(rm, 0, 0)

NoScoreYet == [of |-> "none", n |-> 0]

ReturnFalse_Resized(rm, sc, t) == [ret |-> FALSE, rm |-> <<>>, score |-> sc, t |-> t]

\* 1773-1774, 1807-1808, 1906-1907, 1924-1925: return false
ReturnFalse(rm, sc, t) == [ret |-> FALSE, rm |-> rm, score |-> sc, t |-> t]

\* 1768-1893; cnt50 and repeated are what st.previous gives at 1816 and 1855;
\* sc is the caller's score
root_probe(p, rm, sc, cnt50, repeated) ==
    Only({ IF d.s = 0 THEN ReturnFalse(rm, sc, d.t)
           ELSE Only({ IF ~l.ok THEN ReturnFalse(l.rm, sc, l.t)
                       ELSE [ret |-> TRUE,
                             rm |-> root_filter(l.rm, d.v, cnt50, repeated),
                             score |-> RootScore(d.v, cnt50),
                             t |-> l.t] :
                       l \in {root_loop(p, rm, 1, d.v, d.s, d.t)} }) :
           d \in {probe_dtz(p, <<>>)} })

RECURSIVE wdl_loop(_, _, _, _, _)
\* 1918-1931
wdl_loop(p, rm, i, best, t) ==
    IF i > Len(rm) THEN [ok |-> TRUE, rm |-> rm, best |-> best, t |-> t]
    ELSE Only({ IF r.s = 0 THEN [ok |-> FALSE, rm |-> rm, best |-> best, t |-> r.t]
                ELSE wdl_loop(p, [rm EXCEPT ![i].score = -r.v], i + 1,
                              IF -r.v > best THEN -r.v ELSE best, r.t) :
                r \in {probe_wdl(p.moves[rm[i].move].child, t)} })

WdlBestStart_Draw == WDLDraw

\* 1915
WdlBestStart == WDLLoss

\* 1900-1942
root_probe_wdl(p, rm, sc) ==
    Only({ IF w.s = 0 THEN ReturnFalse(rm, sc, w.t)
           ELSE Only({ LET new == [of |-> "WDL_to_value", n |-> w.v]
                       IN  IF ~l.ok THEN ReturnFalse(l.rm, new, l.t)
                           ELSE [ret |-> TRUE, rm |-> Keep(l.rm, l.best, l.best),
                                 score |-> new, t |-> l.t] :
                       l \in {wdl_loop(p, rm, 1, WdlBestStart, w.t)} }) :
           w \in {probe_wdl(p, <<>>)} })

(***************************************************************************)
(* The root positions: every legal move is spelled out.                    *)
(***************************************************************************)
RootLeafValues == {-101, -100, -10, -2, 0, 2, 10, 100, 101}

RootLeaves ==
    { Node(<<>>, {d}, FALSE, "both") : d \in RootLeafValues }
    \cup { Node(<<>>, {}, c, "both") : c \in BOOLEAN }
    \cup { Node(<<>>, {0}, FALSE, tb) : tb \in {"none", "nodtz"} }

RootMoveSet == MovesTo(RootLeaves, {"quiet", "cap"})

RootPositions ==
    { Node(<<>>, {}, c, "both") : c \in BOOLEAN }
    \cup { Node(<<m>>, {}, FALSE, tb) :
             m \in MovesTo(RootLeaves, MoveKinds),
             tb \in {"both", "wrong", "nodtz", "none"} }
    \cup { Node(<<m, n>>, {}, FALSE, "both") :
             m \in RootMoveSet,
             n \in RootMoveSet \cup {Mv("quiet", FALSE, Node(<<>>, {0}, FALSE, "none"))} }

\* a game from a position set up with some 50-move counter: the keys of its
\* positions and their 50-move counters; a position recurs after an even
\* number of plies, four at least
Game(keys, r50) ==
    [i \in 1..Len(keys) |-> StateInfo(keys[i], r50[i], i - 1)]

Games ==
    { Game(<<0>>, <<0>>), Game(<<0>>, <<50>>), Game(<<0>>, <<96>>),
      Game(<<0>>, <<97>>),
      Game(<<0, 1, 2, 3, 0>>, <<46, 47, 48, 49, 50>>),
      Game(<<0, 1, 2, 3, 4>>, <<46, 47, 48, 49, 50>>),
      Game(<<0, 1, 2, 3, 0, 5>>, <<0, 1, 2, 3, 4, 5>>),
      Game(<<0, 1, 2, 3, 0, 5, 6, 7, 8, 9>>, <<5, 6, 7, 8, 9, 0, 1, 2, 3, 4>>) }

\* with no root move st.previous is read uninitialized at 1816
GarbageCnt50 == {0, 97}

RootIdle ==
    /\ rootMoves = <<>>
    /\ score = NoScoreYet
    /\ rcalled = "none"
    /\ rret = FALSE
    /\ rlooked = <<>>
    /\ rst = <<>>
    /\ rcnt50 = 0
    /\ rrepeated = FALSE

RootInit ==
    /\ ppos \in RootPositions
    /\ plyTables \in BOOLEAN
    /\ pcalled = {}
    /\ pwdl = [v |-> 0, s |-> 1, t |-> <<>>]
    /\ pdtz = [v |-> 0, s |-> 1, t |-> <<>>]
    /\ rootMoves = RootMovesOf(ppos)
    /\ score = NoScoreYet
    /\ rcalled = "none"
    /\ rret = FALSE
    /\ rlooked = <<>>
    /\ rst = <<>>
    /\ rcnt50 = 0
    /\ rrepeated = FALSE

\* Tablebases::root_probe(pos, rootMoves, score)
call_root_probe ==
    /\ rcalled = "none"
    /\ \E h \in Games :
        \E prev \in IF rootMoves = <<>>
                     THEN GarbageCnt50 \X BOOLEAN
                     ELSE {<<h[Len(h)].rule50, has_repeated(h, Len(h))>>} :
          LET r == root_probe(ppos, rootMoves, score, prev[1], prev[2])
          IN  /\ rst' = h
              /\ rcnt50' = prev[1]
              /\ rrepeated' = prev[2]
              /\ rootMoves' = r.rm
              /\ score' = r.score
              /\ rret' = r.ret
              /\ rlooked' = r.t
    /\ rcalled' = "root_probe"
    /\ UNCHANGED probeVars
    /\ UNCHANGED notRoot

\* Tablebases::root_probe_wdl(pos, rootMoves, score)
call_root_probe_wdl ==
    /\ rcalled = "none"
    /\ LET r == root_probe_wdl(ppos, rootMoves, score)
       IN  /\ rootMoves' = r.rm
           /\ score' = r.score
           /\ rret' = r.ret
           /\ rlooked' = r.t
    /\ rcalled' = "root_probe_wdl"
    /\ UNCHANGED <<rst, rcnt50, rrepeated>>
    /\ UNCHANGED probeVars
    /\ UNCHANGED notRoot

(***************************************************************************)
(* probe_table: from a position to the table bucket and the index          *)
(* (tbprobe.cpp:627-859), with the tables Tablebases::init fills           *)
(* (1554-1622).  Squares are 0..63, a1 = 0, h1 = 7, a8 = 56; pieces are    *)
(* 1..6 (white pawn .. white king) and 9..14 (black).                      *)
(***************************************************************************)
file_of(s) == s % 8
rank_of(s) == s \div 8
make_square(f, r) == r * 8 + f

FlipH(s) == make_square(7 - file_of(s), rank_of(s))    \* s ^ 7
FlipV(s) == make_square(file_of(s), 7 - rank_of(s))    \* s ^ 070
\* ((s >> 3) | (s << 3)) & 63
FlipDiag(s) == make_square(rank_of(s), file_of(s))

FlipColor(pce) == IF pce >= 8 THEN pce - 8 ELSE pce + 8    \* pce ^ 8
type_of(pce) == pce % 8
color_of(pce) == pce \div 8

FlapTable ==
    << 0,  0,  0,  0,  0,  0,  0, 0,
       0,  6, 12, 18, 18, 12,  6, 0,
       1,  7, 13, 19, 19, 13,  7, 1,
       2,  8, 14, 20, 20, 14,  8, 2,
       3,  9, 15, 21, 21, 15,  9, 3,
       4, 10, 16, 22, 22, 16, 10, 4,
       5, 11, 17, 23, 23, 17, 11, 5,
       0,  0,  0,  0,  0,  0,  0, 0 >>
Flap(s) == FlapTable[s + 1]

PtwistTable ==
    <<  0,  0,  0,  0,  0,  0,  0,  0,
       47, 35, 23, 11, 10, 22, 34, 46,
       45, 33, 21,  9,  8, 20, 32, 44,
       43, 31, 19,  7,  6, 18, 30, 42,
       41, 29, 17,  5,  4, 16, 28, 40,
       39, 27, 15,  3,  2, 14, 26, 38,
       37, 25, 13,  1,  0, 12, 24, 36,
        0,  0,  0,  0,  0,  0,  0,  0 >>
Ptwist(s) == PtwistTable[s + 1]

InvflapTable ==
    <<  8, 16, 24, 32, 40, 48,
        9, 17, 25, 33, 41, 49,
       10, 18, 26, 34, 42, 50,
       11, 19, 27, 35, 43, 51 >>
Invflap(k) == InvflapTable[k + 1]

off_A1H8(s) == rank_of(s) - file_of(s)

\* 1555-1560: Binomial[k][n] by Pascal's triangle, 0 where k > n
\* one row of the triangle from the row before
NextRow(prev, n) ==
    LET at(k) == (IF k > 0 THEN prev[k] ELSE 0) + (IF k < n THEN prev[k + 1] ELSE 0)
    IN  << at(0), at(1), at(2), at(3), at(4), at(5) >>

RECURSIVE BinomialRows(_)
\* the rows 0..n, one after the other
BinomialRows(n) ==
    IF n = 0 THEN << <<1, 0, 0, 0, 0, 0>> >>
    ELSE LET rows == BinomialRows(n - 1)
         IN  Append(rows, NextRow(rows[n], n))

BinomialTable == BinomialRows(63)
Binomial(k, n) == BinomialTable[n + 1][k + 1]

RECURSIVE SumTo(_, _, _)
\* f[lo] + ... + f[hi]
SumTo(f, lo, hi) == IF lo > hi THEN 0 ELSE f[lo] + SumTo(f, lo + 1, hi)

\* 1562-1575
Pawnidx(i, k) ==
    SumTo([m \in 0..23 |-> Binomial(i, Ptwist(Invflap(m)))], 6 * (k \div 6), k - 1)

Pfactor(i, f) ==
    SumTo([m \in 0..23 |-> Binomial(i, Ptwist(Invflap(m)))], 6 * f, 6 * f + 5)

AllSquares == 0..63

\* 1578-1581; the array is a zeroed global
MapB1H1H7(s) ==
    IF off_A1H8(s) < 0
    THEN Cardinality({t \in 0..(s - 1) : off_A1H8(t) < 0})
    ELSE 0

InTriangle(s) == off_A1H8(s) < 0 /\ file_of(s) <= 3 /\ rank_of(s) <= 3
OnShortDiagonal(s) == off_A1H8(s) = 0 /\ file_of(s) <= 3

\* 1584-1595; the array is a zeroed global
MapA1D1D4(s) ==
    IF InTriangle(s) THEN Cardinality({t \in 0..(s - 1) : InTriangle(t)})
    ELSE IF OnShortDiagonal(s)
         THEN Cardinality({t \in AllSquares : InTriangle(t)})
              + Cardinality({t \in 0..(s - 1) : OnShortDiagonal(t)})
    ELSE 0

\* (StepAttacksBB[KING][s1] | s1) & s2
InKingZone(s1, s2) ==
    /\ file_of(s2) - file_of(s1) \in -1..1
    /\ rank_of(s2) - rank_of(s1) \in -1..1

\* 1604: the square of the first king for the code c of MapA1D1D4
KingOfCodeAt(c) == CHOOSE s \in AllSquares : MapA1D1D4(s) = c /\ (c # 0 \/ s = 1)
KingOfCode ==
    << KingOfCodeAt(0), KingOfCodeAt(1), KingOfCodeAt(2), KingOfCodeAt(3),
       KingOfCodeAt(4), KingOfCodeAt(5), KingOfCodeAt(6), KingOfCodeAt(7),
       KingOfCodeAt(8), KingOfCodeAt(9) >>

\* 1607-1617: which of the three cases a pair of king squares falls in
KKCase(c, s2) ==
    LET s1 == KingOfCode[c + 1]
    IN  IF InKingZone(s1, s2) THEN "illegal"
        ELSE IF off_A1H8(s1) = 0 /\ off_A1H8(s2) > 0 THEN "illegal"
        ELSE IF off_A1H8(s1) = 0 /\ off_A1H8(s2) = 0 THEN "diagonal"
        ELSE "coded"

KKPairs == (0..9) \X AllSquares
KKBefore(p, q) == p[1] < q[1] \/ (p[1] = q[1] /\ p[2] < q[2])

\* 1600-1622
KK_idx(c, s2) ==
    LET k == KKCase(c, s2)
        n(kind) == Cardinality({p \in KKPairs :
                      KKCase(p[1], p[2]) = kind /\ KKBefore(p, <<c, s2>>)})
    IN  IF k = "illegal" THEN -1
        ELSE IF k = "coded" THEN n("coded")
        ELSE Cardinality({p \in KKPairs : KKCase(p[1], p[2]) = "coded"})
             + n("diagonal")

(***************************************************************************)
(* A table entry: WDLEntry::WDLEntry (390-413) from the material, and the  *)
(* piece order and the order bytes WDLEntry::do_init reads from the file   *)
(* (1001-1015).  mat = <<white pieces, black pieces>> of the stored key;   *)
(* pcs[stm + 1] = precomp->pieces of the bucket; ord[stm + 1] = order[stm].*)
(***************************************************************************)
W_PAWN == 1
W_KING == 6
B_PAWN == 9
NoOrder == 15

CountIn(seq, x) == Cardinality({i \in 1..Len(seq) : seq[i] = x})

Entry(mat, pcs, ord) ==
    LET wp == CountIn(mat[1], W_PAWN)
        bp == CountIn(mat[2], B_PAWN)
        c  == bp = 0 \/ (wp > 0 /\ bp >= wp)
    IN  [ mat |-> mat,
          pieceCount |-> Len(mat[1]) + Len(mat[2]),
          symmetric |-> [i \in 1..Len(mat[1]) |-> FlipColor(mat[1][i])] = mat[2],
          hasPawns |-> wp + bp > 0,
          pawnCount |-> IF wp + bp = 0 THEN <<0, 0>>
                        ELSE IF c THEN <<wp, bp>> ELSE <<bp, wp>>,
          hasUniquePieces |->
              /\ wp + bp = 0
              /\ \E pce \in (2..5) \cup (10..13) :
                     CountIn(mat[1] \o mat[2], pce) = 1,
          pieces |-> pcs,
          order |-> ord ]

\* 1010: pn[] of a table without pawns
PawnsArg(e) == IF e.hasPawns THEN e.pawnCount
               ELSE <<IF e.hasUniquePieces THEN 3 ELSE 2, 0>>

\* 907-909: length of the run of equal pieces that starts at i (0-based)
RunLen(pcs, i) ==
    LET stop == CHOOSE j \in (i + 1)..Len(pcs) :
                    /\ (j = Len(pcs) \/ pcs[j + 1] # pcs[i + 1])
                    /\ \A k \in (i + 1)..j : pcs[k] = pcs[i + 1]
    IN  stop - i

RECURSIVE NormRuns(_, _, _)
NormRuns(pcs, i, norm) ==
    IF i >= Len(pcs) THEN norm
    ELSE NormRuns(pcs, i + RunLen(pcs, i), [norm EXCEPT ![i] = RunLen(pcs, i)])

\* 899-910: norm[] as a function on 0..num-1
set_norms(pcs, pawns) ==
    LET n0 == [i \in 0..(Len(pcs) - 1) |-> 0]
        n1 == [n0 EXCEPT ![0] = pawns[1]]
        n2 == IF pawns[2] > 0 THEN [n1 EXCEPT ![pawns[1]] = pawns[2]] ELSE n1
    IN  NormRuns(pcs, pawns[1] + pawns[2], n2)

\* 861-867
get_pfactor(e, norm, f) ==
    IF e.hasPawns THEN Pfactor(norm[0] - 1, f)
    ELSE IF e.hasUniquePieces THEN 31332 ELSE 462

RECURSIVE FactorLoop(_, _, _, _, _, _, _, _, _)
\* 882-894: the loop from k on; st = [i, n, size, factor]
FactorLoop(e, norm, ord, f, num, k, i, n, st) ==
    IF ~(i < num \/ k = ord[1] \/ k = ord[2]) THEN st
    ELSE IF k = ord[1]
         THEN FactorLoop(e, norm, ord, f, num, k + 1, i, n,
                   [size |-> st.size * get_pfactor(e, norm, f),
                    factor |-> [st.factor EXCEPT ![0] = st.size]])
    ELSE IF k = ord[2]
         THEN FactorLoop(e, norm, ord, f, num, k + 1, i, n,
                   [size |-> st.size * Binomial(norm[norm[0]], 48 - norm[0]),
                    factor |-> [st.factor EXCEPT ![norm[0]] = st.size]])
    ELSE FactorLoop(e, norm, ord, f, num, k + 1, i + norm[i], n - norm[i],
                   [size |-> st.size * Binomial(norm[i], n),
                    factor |-> [st.factor EXCEPT ![i] = st.size]])

\* 870-897: factor[] as a function on 0..num-1, and the table size
set_factors(e, norm, ord, f) ==
    LET num == e.pieceCount
        i0  == norm[0] + (IF ord[2] < NoOrder THEN norm[norm[0]] ELSE 0)
    IN  FactorLoop(e, norm, ord, f, num, 0, i0, 64 - i0,
                   [size |-> 1, factor |-> [j \in 0..(num - 1) |-> 0]])

\* what WDLEntry::do_init leaves in the PairsData of bucket (stm, f)
Precomp(e, stm, f) ==
    LET pcs == e.pieces[stm + 1]
        norm == set_norms(pcs, PawnsArg(e))
    IN  [ pieces |-> pcs,
          norm |-> norm,
          factor |-> set_factors(e, norm, e.order[stm + 1], f).factor ]

(***************************************************************************)
(* A position is [stm, pl]: the side to move (0 white, 1 black) and the    *)
(* piece list, entries <<piece, square>>.  probe_table reads the bitboards, *)
(* that is the set of the entries, lowest square first (pop_lsb).          *)
(***************************************************************************)
RECURSIVE Ascending(_)
\* the squares of a set, lowest first
Ascending(S) ==
    IF S = {} THEN <<>>
    ELSE LET m == CHOOSE x \in S : \A y \in S : x <= y
         IN  <<m>> \o Ascending(S \ {m})

PieceOn(pos, s) == (CHOOSE i \in 1..Len(pos.pl) : pos.pl[i][2] = s)

piece_on(pos, s) == pos.pl[PieceOn(pos, s)][1]

SquaresOf(pos, pce) == {pos.pl[i][2] : i \in {j \in 1..Len(pos.pl) : pos.pl[j][1] = pce}}

AllPieces(pos) == {pos.pl[i][2] : i \in 1..Len(pos.pl)}

\* pos.material_key() != entry->key: white holds the black pieces of the key
KeyDiffers(pos, e) ==
    \E pce \in 1..6 : Cardinality(SquaresOf(pos, pce)) # CountIn(e.mat[1], pce)

\* std::sort on at most six elements is an insertion sort: an element goes
\* behind those that do not compare greater, so equal keys keep their order
RECURSIVE InsertByKey(_, _, _)
InsertByKey(sorted, x, key) ==
    IF sorted = <<>> THEN <<x>>
    ELSE IF key[x] < key[sorted[Len(sorted)]]
         THEN InsertByKey(SubSeq(sorted, 1, Len(sorted) - 1), x, key)
              \o <<sorted[Len(sorted)]>>
         ELSE sorted \o <<x>>

RECURSIVE SortByKey(_, _)
SortByKey(seq, key) ==
    IF seq = <<>> THEN <<>>
    ELSE InsertByKey(SortByKey(SubSeq(seq, 1, Len(seq) - 1), key), seq[Len(seq)], key)

FlapKey == [s \in AllSquares |-> Flap(s)]
PtwistKey == [s \in AllSquares |-> -Ptwist(s)]
SquareKey == [s \in AllSquares |-> s]

Map(seq, F(_)) == [i \in 1..Len(seq) |-> F(seq[i])]

Swap(seq, i, j) == [seq EXCEPT ![i] = seq[j], ![j] = seq[i]]

RECURSIVE Reorder(_, _, _)
\* 711-718, from i (1-based) on; arr = [squares, pieces]
Reorder(arr, want, i) ==
    IF i > Len(arr.squares) THEN arr
    ELSE LET js == {j \in i..Len(arr.squares) : arr.pieces[j] = want[i]}
         IN  IF js = {} THEN Reorder(arr, want, i + 1)
             ELSE LET j == CHOOSE x \in js : \A y \in js : x <= y
                  IN  Reorder([squares |-> Swap(arr.squares, i, j),
                               pieces |-> Swap(arr.pieces, i, j)], want, i + 1)

\* 751-759 with the bound of 755
DiagLimit(hasUniquePieces) == IF hasUniquePieces THEN 3 ELSE 2

\* the step without the bound of 755
DiagonalFlip_AnyIndex(sq, hasUniquePieces) ==
    LET off == {i \in 1..Len(sq) : off_A1H8(sq[i]) # 0}
    IN  IF off = {} THEN sq
        ELSE LET i == CHOOSE x \in off : \A y \in off : x <= y
             IN  IF off_A1H8(sq[i]) > 0
                 THEN [j \in 1..Len(sq) |-> IF j >= i THEN FlipDiag(sq[j]) ELSE sq[j]]
                 ELSE sq

DiagonalFlip(sq, hasUniquePieces) ==
    LET off == {i \in 1..Len(sq) : off_A1H8(sq[i]) # 0}
    IN  IF off = {} THEN sq
        ELSE LET i == CHOOSE x \in off : \A y \in off : x <= y
             IN  IF off_A1H8(sq[i]) > 0 /\ i - 1 < DiagLimit(hasUniquePieces)
                 THEN [j \in 1..Len(sq) |-> IF j >= i THEN FlipDiag(sq[j]) ELSE sq[j]]
                 ELSE sq

B2I(b) == IF b THEN 1 ELSE 0

\* 786-820
UniqueIdx(sq) ==
    LET adjust1 == B2I(sq[2] > sq[1])
        adjust2 == B2I(sq[3] > sq[1]) + B2I(sq[3] > sq[2])
    IN  IF off_A1H8(sq[1]) # 0
        THEN MapA1D1D4(sq[1]) * 63 * 62 + (sq[2] - adjust1) * 62 + sq[3] - adjust2
        ELSE IF off_A1H8(sq[2]) # 0
        THEN 6 * 63 * 62 + rank_of(sq[1]) * 28 * 62 + MapB1H1H7(sq[2]) * 62
             + sq[3] - adjust2
        ELSE IF off_A1H8(sq[3]) # 0
        THEN 6 * 63 * 62 + 4 * 28 * 62 + rank_of(sq[1]) * 7 * 28
             + (rank_of(sq[2]) - adjust1) * 28 + MapB1H1H7(sq[3])
        ELSE 6 * 63 * 62 + 4 * 28 * 62 + 4 * 7 * 28 + rank_of(sq[1]) * 7 * 6
             + (rank_of(sq[2]) - adjust1) * 6 + (rank_of(sq[3]) - adjust2)

\* 786-829: the index of the leading group, before the factor
LeadingIdx(sq, hasUniquePieces) ==
    IF hasUniquePieces THEN UniqueIdx(sq)
    ELSE KK_idx(MapA1D1D4(sq[1]), sq[2])

\* 843-850: a group squares[next..end), with the squares sorted (838)
GroupSum(sq, next, end, pawns) ==
    LET g == SortByKey(SubSeq(sq, next + 1, end), SquareKey)
        adjust(s) == Cardinality({j \in 1..next : s > sq[j]})
    IN  SumTo([i \in 1..Len(g) |->
                  Binomial(i, g[i] - adjust(g[i]) - (IF pawns THEN 8 ELSE 0))],
              1, Len(g))

RECURSIVE encode_remaining(_, _, _, _, _)
\* 834-855, idx already multiplied by factor[0]
encode_remaining(sq, d, idx, next, remainingPawns) ==
    IF next >= Len(sq) THEN idx
    ELSE LET end == next + (IF remainingPawns > 0 THEN remainingPawns ELSE d.norm[next])
         IN  encode_remaining(sq, d,
                 idx + GroupSum(sq, next, end, remainingPawns > 0) * d.factor[next],
                 end, 0)

HFlipIfRight_Never(sq) == sq

\* 723-725
HFlipIfRight(sq) == IF file_of(sq[1]) > 3 THEN Map(sq, FlipH) ELSE sq

VFlipIfHigh_Never(sq) == sq

\* 743-745
VFlipIfHigh(sq) == IF rank_of(sq[1]) > 3 THEN Map(sq, FlipV) ELSE sq

\* 646, 654: sq ^ flipSquares
FlipSquares_None(flip, s) == s

FlipSquares(flip, s) == IF flip THEN FlipV(s) ELSE s

\* 645, 653: piece ^ flipColor
FlipPiece(flip, pce) == IF flip THEN FlipColor(pce) ELSE pce

\* 644-725: the bucket, and the squares in the order of precomp->pieces
\* after the horizontal flip
Arrange(pos, e) ==
    LET flip == IF e.symmetric THEN pos.stm = 1 ELSE KeyDiffers(pos, e)
        stm  == IF e.symmetric THEN 0
                ELSE IF KeyDiffers(pos, e) THEN 1 - pos.stm ELSE pos.stm
        Sq(s) == FlipSquares(flip, s)
        Pc(pce) == FlipPiece(flip, pce)
        leadPc == Pc(e.pieces[1][1])
        leadPawns == IF e.hasPawns THEN SquaresOf(pos, leadPc) ELSE {}
        lead == SortByKey(Map(Ascending(leadPawns), Sq), FlapKey)
        tbFile == IF ~e.hasPawns THEN 0
                  ELSE IF file_of(lead[1]) > 3 THEN file_of(FlipH(lead[1]))
                  ELSE file_of(lead[1])
        d == Precomp(e, stm, tbFile)
        rest == Ascending(AllPieces(pos) \ leadPawns)
        arr0 == [squares |-> lead \o Map(rest, Sq),
                 pieces |-> [i \in 1..Len(lead) |-> 0]
                            \o [i \in 1..Len(rest) |-> Pc(piece_on(pos, rest[i]))]]
        arr1 == Reorder(arr0, d.pieces, Len(lead) + 1)
    IN  [ stm |-> stm, tbFile |-> tbFile, d |-> d, leadPawnsCnt |-> Len(lead),
          squares |-> HFlipIfRight(arr1.squares) ]

\* 627-859 up to the index: the bucket [stm, tbFile] and idx
probe_table(pos, e) ==
    LET a == Arrange(pos, e)
        n == a.leadPawnsCnt
        sqP == <<a.squares[1]>> \o SortByKey(SubSeq(a.squares, 2, n), PtwistKey)
               \o SubSeq(a.squares, n + 1, Len(a.squares))
        idxP == Pawnidx(n - 1, Flap(sqP[1]))
                + SumTo([i \in 1..(n - 1) |-> Binomial(i, Ptwist(sqP[i + 1]))], 1, n - 1)
        sq2 == DiagonalFlip(VFlipIfHigh(a.squares), e.hasUniquePieces)
        idxN == LeadingIdx(sq2, e.hasUniquePieces)
        nextN == IF e.hasUniquePieces THEN 3 ELSE 2
    IN  [ stm |-> a.stm,
          tbFile |-> a.tbFile,
          idx |-> IF e.hasPawns
                  THEN encode_remaining(sqP, a.d, idxP * a.d.factor[0], n, e.pawnCount[2])
                  ELSE encode_remaining(sq2, a.d, idxN * a.d.factor[0], nextN, 0) ]

(***************************************************************************)
(* The tables and the positions probed.                                    *)
(***************************************************************************)
\* material, piece order of the two buckets, order bytes of the two buckets
KQvK   == Entry(<<<<6, 5>>, <<14>>>>, <<<<6, 5, 14>>, <<14, 5, 6>>>>,
                <<<<0, NoOrder>>, <<0, NoOrder>>>>)
KRRvK  == Entry(<<<<6, 4, 4>>, <<14>>>>, <<<<6, 14, 4, 4>>, <<14, 6, 4, 4>>>>,
                <<<<0, NoOrder>>, <<1, NoOrder>>>>)
KQvKR  == Entry(<<<<6, 5>>, <<14, 12>>>>, <<<<6, 14, 5, 12>>, <<5, 12, 14, 6>>>>,
                <<<<1, NoOrder>>, <<0, NoOrder>>>>)
KQvKQ  == Entry(<<<<6, 5>>, <<14, 13>>>>, <<<<6, 5, 14, 13>>, <<6, 5, 14, 13>>>>,
                <<<<0, NoOrder>>, <<0, NoOrder>>>>)
KPvK   == Entry(<<<<6, 1>>, <<14>>>>, <<<<1, 6, 14>>, <<1, 14, 6>>>>,
                <<<<0, NoOrder>>, <<1, NoOrder>>>>)
KPPvK  == Entry(<<<<6, 1, 1>>, <<14>>>>, <<<<1, 1, 6, 14>>, <<1, 1, 14, 6>>>>,
                <<<<0, NoOrder>>, <<1, NoOrder>>>>)
KPvKP  == Entry(<<<<6, 1>>, <<14, 9>>>>, <<<<1, 9, 6, 14>>, <<1, 9, 6, 14>>>>,
                <<<<0, 1>>, <<0, 1>>>>)

EncEntries == {KQvK, KRRvK, KQvKR, KQvKQ, KPvK, KPPvK, KPvKP}

\* a1 b1 a2 c3 d4 e5 c8
PieceSquares == {0, 1, 8, 18, 27, 36, 58}
\* with pawns on the board: a1 h1 c4 e5 c8
PieceSquaresP == {0, 7, 26, 36, 58}
\* a2 h2 b3 e4 g7
PawnSquares == {8, 15, 17, 28, 54}

SquaresFor(e, pce) ==
    IF type_of(pce) = W_PAWN THEN PawnSquares
    ELSE IF e.hasPawns THEN PieceSquaresP
    ELSE PieceSquares

Material(e) == e.mat[1] \o e.mat[2]

\* the kings do not touch, no two pieces share a square
Placements(e) ==
    { sq \in [1..e.pieceCount -> PieceSquares \cup PieceSquaresP \cup PawnSquares] :
        /\ \A i \in 1..e.pieceCount : sq[i] \in SquaresFor(e, Material(e)[i])
        /\ \A i, j \in 1..e.pieceCount : i # j => sq[i] # sq[j]
        /\ \A i, j \in 1..e.pieceCount :
               (Material(e)[i] = W_KING /\ Material(e)[j] = W_KING + 8)
                   => ~InKingZone(sq[i], sq[j]) }

PositionsOf(e) ==
    { [stm |-> s, pl |-> [i \in 1..e.pieceCount |-> <<Material(e)[i], sq[i]>>]] :
        s \in {0, 1}, sq \in Placements(e) }

Symmetries == {"hflip", "vflip", "diag", "colour", "perm"}

\* the pairs of list entries that hold the same piece
SamePiece(pos) ==
    { p \in (1..Len(pos.pl)) \X (1..Len(pos.pl)) :
        p[1] < p[2] /\ pos.pl[p[1]][1] = pos.pl[p[2]][1] }

OnSquares(pos, F(_)) ==
    [pos EXCEPT !.pl = [i \in 1..Len(pos.pl) |-> <<pos.pl[i][1], F(pos.pl[i][2])>>]]

\* the images of a position under a symmetry
Images(pos, sym) ==
    IF sym = "hflip" THEN {OnSquares(pos, FlipH)}
    ELSE IF sym = "vflip" THEN {OnSquares(pos, FlipV)}
    ELSE IF sym = "diag" THEN {OnSquares(pos, FlipDiag)}
    ELSE IF sym = "colour"
    THEN {[stm |-> 1 - pos.stm,
           pl |-> [i \in 1..Len(pos.pl) |->
                      <<FlipColor(pos.pl[i][1]), FlipV(pos.pl[i][2])>>]]}
    ELSE {[pos EXCEPT !.pl = [@ EXCEPT ![p[1]] = <<@[1], pos.pl[p[2]][2]>>,
                                       ![p[2]] = <<@[1], pos.pl[p[1]][2]>>]] :
             p \in SamePiece(pos)}

\* the kings on every pair of squares where they do not touch, the queen on
\* b1 a2 d4 a8 h8, the rooks on b1 d4, d4 g7 or a2 h8
LeadQueenSquares == {1, 8, 27, 56, 63}
LeadRookPairs == {<<1, 27>>, <<27, 54>>, <<8, 63>>}
LeadEntries == {KQvK, KRRvK}

LeadPlacements(e) ==
    LET kings == {k \in AllSquares \X AllSquares : ~InKingZone(k[1], k[2])}
    IN  IF e = KQvK
        THEN {<<k[1], q, k[2]>> : k \in kings, q \in LeadQueenSquares}
        ELSE {<<k[1], r[1], r[2], k[2]>> : k \in kings, r \in LeadRookPairs}

LeadPositionsOf(e) ==
    { [stm |-> s, pl |-> [i \in 1..e.pieceCount |-> <<Material(e)[i], sq[i]>>]] :
        s \in {0, 1},
        sq \in {x \in LeadPlacements(e) :
                   \A i, j \in 1..e.pieceCount : i # j => x[i] # x[j]} }

NoIndex == [stm |-> 0, tbFile |-> 0, idx |-> -1]

EncIdle ==
    /\ etab = KQvK
    /\ epos = [stm |-> 0, pl |-> <<>>]
    /\ esym = "none"
    /\ eorig = [stm |-> 0, pl |-> <<>>]
    /\ eres0 = NoIndex
    /\ eres1 = NoIndex

EncInit ==
    /\ etab \in EncEntries
    /\ epos \in PositionsOf(etab)
    /\ esym = "none"
    /\ eorig = epos
    /\ eres0 = NoIndex
    /\ eres1 = NoIndex

LeadInit ==
    /\ etab \in LeadEntries
    /\ epos \in LeadPositionsOf(etab)
    /\ esym = "none"
    /\ eorig = epos
    /\ eres0 = NoIndex
    /\ eres1 = NoIndex

\* probe_table on the position
enc_probe ==
    /\ esym = "none"
    /\ eres0 = NoIndex
    /\ eres0' = probe_table(epos, etab)
    /\ UNCHANGED <<etab, epos, esym, eorig, eres1>>
    /\ UNCHANGED notEnc

\* the caller goes on to a position that is the image of the first under a
\* symmetry the table's material allows
enc_image ==
    /\ esym = "none"
    /\ eres0 # NoIndex
    /\ \E sym \in Symmetries :
          /\ sym \in {"vflip", "diag"} => ~etab.hasPawns
          /\ esym' = sym
          /\ epos' \in Images(epos, sym)
    /\ UNCHANGED <<etab, eorig, eres0, eres1>>
    /\ UNCHANGED notEnc

\* probe_table on the image
enc_probe_image ==
    /\ esym # "none"
    /\ eres1 = NoIndex
    /\ eres1' = probe_table(epos, etab)
    /\ UNCHANGED <<etab, epos, esym, eorig, eres0>>
    /\ UNCHANGED notEnc

(***************************************************************************)
(* probe_table on a DTZ entry.  The entry holds one bucket per file, for   *)
(* one side to move; the flags byte of the bucket says which (STM), and    *)
(* whether wins and losses are stored in plies.                            *)
(***************************************************************************)
FlagSTM == 1
FlagWinPlies == 4
FlagLossPlies == 8

HasFlag(flags, bit) == (flags \div bit) % 2 = 1

check_dtz_stm_Any(e, flags, stm) == TRUE

\* 579-587
check_dtz_stm(e, flags, stm) ==
    \/ (IF HasFlag(flags, FlagSTM) THEN FlagSTM ELSE 0) = stm
    \/ (e.symmetric /\ ~e.hasPawns)

\* 597-623 for a bucket without the Mapped flag
map_score_dtz(flags, value, wdl) ==
    IF \/ (wdl = WDLWin /\ ~HasFlag(flags, FlagWinPlies))
       \/ (wdl = WDLLoss /\ ~HasFlag(flags, FlagLossPlies))
       \/ wdl = WDLCursedWin
       \/ wdl = WDLCursedLoss
    THEN value * 2
    ELSE value

\* what the bucket holds at an index
DtzByte(idx) == idx % 50

\* 627-859 with Entry = DTZEntry: the value returned, *success, and whether
\* the index was computed and the value decoded
probe_table_dtz(pos, e, flagsOf, wdl, success0) ==
    LET a == Arrange(pos, e)
        flags == flagsOf[a.tbFile + 1]
    IN  IF ~check_dtz_stm(e, flags, a.stm)
        THEN [v |-> 0, s |-> -1, decoded |-> FALSE]
        ELSE [v |-> map_score_dtz(flags, DtzByte(probe_table(pos, e).idx), wdl),
              s |-> success0, decoded |-> TRUE]

\* flags of the four buckets: white to move stored, black to move stored,
\* and files that differ
FlagChoices == { <<0, 0, 0, 0>>, <<13, 13, 13, 13>>, <<1, 4, 9, 12>> }

NoDtz == [v |-> 0, s |-> 0, decoded |-> FALSE]

EncDtzIdle ==
    /\ eflags = <<0, 0, 0, 0>>
    /\ ewdl = WDLWin
    /\ esuccess = 1
    /\ edtz = NoDtz

\* 1228: probe_table(pos, &DTZTable.front(), wdl, success)
enc_probe_dtz ==
    /\ edtz = NoDtz
    /\ \E fl \in FlagChoices, w \in {WDLLoss, WDLCursedWin}, s0 \in {1, 2} :
          /\ eflags' = fl
          /\ ewdl' = w
          /\ esuccess' = s0
          /\ edtz' = probe_table_dtz(epos, etab, fl, w, s0)
    /\ UNCHANGED encVars
    /\ UNCHANGED notEncDtz


(***************************************************************************)
(* Tablebases::init (1542-1651) and HashTable (244-283, 478-505): the WDL  *)
(* registry WDLTable, the hash WDLHash from material keys to its entries,  *)
(* MaxCardinality, and what the probes do to them and to the DTZ list.     *)
(* A material is the list of pieces handed to HashTable::insert, white's   *)
(* first; piece types are 1..6, pawn to king.                              *)
(***************************************************************************)
\* the number of buckets is 1 << TBHASHBITS (251: 10 in the program)
TBHASHBITS == 2
HSHMAX == 5

PieceTypes == W_PAWN..(W_KING - 1)

RECURSIVE CatFrom(_, _)
CatFrom(ss, i) == IF i > Len(ss) THEN <<>> ELSE ss[i] \o CatFrom(ss, i + 1)

\* the sequences of ss one after the other
Cat(ss) == CatFrom(ss, 1)

\* 1624-1648: the piece lists in the order of the calls of WDLHash.insert
InsertCalls ==
    LET K == W_KING
    IN  Cat([p1 \in PieceTypes |->
          <<<<K, p1, K>>>>
          \o Cat([p2 \in W_PAWN..p1 |->
               << <<K, p1, p2, K>>, <<K, p1, K, p2>> >>
               \o Cat([p3 \in PieceTypes |-> << <<K, p1, p2, K, p3>> >>])
               \o Cat([p3 \in W_PAWN..p2 |->
                    << <<K, p1, p2, p3, K>> >>
                    \o Cat([p4 \in W_PAWN..p3 |-> << <<K, p1, p2, p3, p4, K>> >>])
                    \o Cat([p4 \in PieceTypes |-> << <<K, p1, p2, p3, K, p4>> >>])])
               \o Cat([p3 \in W_PAWN..p1 |->
                    Cat([p4 \in W_PAWN..(IF p1 = p3 THEN p2 ELSE p3) |->
                           << <<K, p1, p2, K, p3, p4>> >>])])])])

\* 486: code.find('K', 1), the place of the black king
BlackKing(pieces) == CHOOSE i \in 2..Len(pieces) :
                         pieces[i] = W_KING /\ \A j \in 2..(i - 1) : pieces[j] # W_KING

SideCode(pieces) ==
    CountIn(pieces, 1) + 5 * CountIn(pieces, 2) + 25 * CountIn(pieces, 3)
      + 125 * CountIn(pieces, 4) + 625 * CountIn(pieces, 5)

\* Position::material_key of the position set up at 498-499 with colour c
\* (0 white, 1 black) for the first side of the code: a number that tells
\* the materials apart
material_key(pieces, c) ==
    LET bk == BlackKing(pieces)
        first == SideCode(SubSeq(pieces, 1, bk - 1))
        second == SideCode(SubSeq(pieces, bk, Len(pieces)))
    IN  IF c = 0 THEN first + 3125 * second ELSE second + 3125 * first

\* the directories a path names and the files in them
PiecesKQK == <<6, 5, 6>>
PiecesKPK == <<6, 1, 6>>
PiecesKRKR == <<6, 4, 6, 4>>
PiecesKQPKR == <<6, 5, 1, 6, 4>>
PiecesKNK == <<6, 2, 6>>

Paths == {"", "<empty>", "small", "large"}

FilesAt(paths) ==
    IF paths = "small"
    THEN { <<PiecesKQK, "rtbw">>, <<PiecesKQK, "rtbz">>, <<PiecesKPK, "rtbw">>,
           <<<<6, 1, 5, 6>>, "rtbw">> }
    ELSE IF paths = "large"
         THEN { <<PiecesKQK, "rtbw">>, <<PiecesKQK, "rtbz">>, <<PiecesKRKR, "rtbw">>,
                <<PiecesKRKR, "rtbz">>, <<PiecesKQPKR, "rtbw">> }
         ELSE {}

\* 246-249 after memset (281): no key, no entry
NoSlot == [key |-> 0, ptr |-> 0]

Buckets == 0..(2 ^ TBHASHBITS - 1)

\* 257: key >> (64 - TBHASHBITS); the model takes the low bits of its keys
Bucket(key) == key % (2 ^ TBHASHBITS)

\* 281: clear()
EmptyHash == [b \in Buckets |-> [i \in 1..HSHMAX |-> NoSlot]]

\* 259-264: the slot insert(key, ptr) writes, 0 when the bucket is full
FreeSlot(hash, key) ==
    LET slots == hash[Bucket(key)]
        free == { i \in 1..HSHMAX : slots[i].ptr = 0 \/ slots[i].key = key }
    IN  IF free = {} THEN 0 ELSE CHOOSE i \in free : \A j \in free : i <= j

\* 256-268: ptr is the place of the entry in WDLTable
hash_insert(hash, key, ptr) ==
    [hash EXCEPT ![Bucket(key)][FreeSlot(hash, key)] = [key |-> key, ptr |-> ptr]]

\* 271-279: WDLHash[key], 0 for nullptr
hash_lookup(hash, key) ==
    LET slots == hash[Bucket(key)]
        hits == { i \in 1..HSHMAX : slots[i].key = key }
    IN  IF hits = {} THEN 0
        ELSE slots[CHOOSE i \in hits : \A j \in hits : i <= j].ptr

\* WDLEntry::WDLEntry (390-413)
NewWdlEntry(pieces) ==
    [key |-> material_key(pieces, 0),
     pieces |-> pieces,
     pieceCount |-> Len(pieces),
     symmetric |-> material_key(pieces, 0) = material_key(pieces, 1),
     hasPawns |-> CountIn(pieces, W_PAWN) > 0,
     ready |-> FALSE,
     baseAddress |-> FALSE]

\* 478-505 when the file is open; st is the registry: WDLTable, WDLHash,
\* MaxCardinality, and exited after exit(1) at 267
insert(st, pieces) ==
    LET table == Append(st.WDLTable, NewWdlEntry(pieces))
        kw == material_key(pieces, 0)
        kb == material_key(pieces, 1)
        card == IF Len(pieces) > st.MaxCardinality THEN Len(pieces)
                ELSE st.MaxCardinality
    IN  IF st.exited THEN st
        ELSE IF FreeSlot(st.WDLHash, kw) = 0
             THEN [st EXCEPT !.WDLTable = table, !.MaxCardinality = card,
                             !.exited = TRUE]
             ELSE LET h1 == hash_insert(st.WDLHash, kw, Len(table))
                  IN  IF FreeSlot(h1, kb) = 0
                      THEN [WDLTable |-> table, WDLHash |-> h1,
                            MaxCardinality |-> card, exited |-> TRUE]
                      ELSE [WDLTable |-> table,
                            WDLHash |-> hash_insert(h1, kb, Len(table)),
                            MaxCardinality |-> card, exited |-> FALSE]

RECURSIVE InsertFrom(_, _, _)
InsertFrom(st, found, i) ==
    IF i > Len(found) THEN st ELSE InsertFrom(insert(st, found[i]), found, i + 1)

ClearWdl_Kept(table) == table

\* 1545: WDLTable.clear()
ClearWdl(table) == <<>>

\* 1542-1651: the registry after init(paths); insert returns at 489-490 for
\* a piece list whose .rtbw file is not found
init(table, paths) ==
    LET cleared == [WDLTable |-> ClearWdl(table), WDLHash |-> EmptyHash,
                    MaxCardinality |-> 0, exited |-> FALSE]
        Found(pieces) == <<pieces, "rtbw">> \in FilesAt(paths)
    IN  IF paths = "" \/ paths = "<empty>" THEN cleared
        ELSE InsertFrom(cleared, SelectSeq(InsertCalls, Found), 1)

\* the material of the two kings alone
PiecesKK == <<6, 6>>

TbMaterials == {PiecesKQK, PiecesKPK, PiecesKRKR, PiecesKQPKR, PiecesKNK, PiecesKK}

\* the keys probed: both sides of every material of the directories, and
\* of a material without a file
ProbeKeys ==
    { material_key(m, c) : m \in {PiecesKQK, PiecesKPK, PiecesKRKR, PiecesKQPKR, PiecesKNK}, c \in {0, 1} }

\* The positions probed: pieces is the material, c the colour of the side
\* that the piece list names first, d the value the tables hold for the
\* quiet moves of the position; cap: the side to move can capture the last
\* piece that is not a king.
TbPositions ==
    { [pieces |-> m, c |-> c, d |-> d, cap |-> FALSE] :
        m \in TbMaterials \ {PiecesKK}, c \in {0, 1}, d \in {0, 2} }
    \cup { [pieces |-> m, c |-> 1, d |-> d, cap |-> TRUE] :
             m \in { n \in TbMaterials : Len(n) = 3 }, d \in {-2, 2} }
    \cup { [pieces |-> PiecesKK, c |-> 0, d |-> 0, cap |-> FALSE] }

OnlyKings(p) == p.pieces = PiecesKK

\* the position as the probes see it when the tables hold it as tb says
TbNode(p, tb) ==
    Node(IF p.cap THEN <<Mv("cap", TRUE, Node(<<>>, {0}, FALSE, "kvk"))>> ELSE <<>>,
         {p.d}, FALSE, tb)

NoCleared == [dtz |-> 0, ready |-> 0]

NoProbe == [call |-> "none", kings |-> FALSE, s |-> 1]

InitIdle ==
    /\ WDLTable = <<>>
    /\ WDLHash = EmptyHash
    /\ MaxCardinality = 0
    /\ TBPaths = ""
    /\ exited = FALSE
    /\ ilast = "none"
    /\ icleared = NoCleared
    /\ iout = NoProbe

ClearDtz_Kept(list) == list

\* 1544: DTZTable.clear()
ClearDtz(list) == <<>>

\* Tablebases::init(paths)
tb_init ==
    /\ ~exited
    /\ \E paths \in Paths :
          LET st == init(WDLTable, paths)
          IN  /\ TBPaths' = paths
              /\ WDLTable' = st.WDLTable
              /\ WDLHash' = st.WDLHash
              /\ MaxCardinality' = st.MaxCardinality
              /\ exited' = st.exited
    /\ DTZTable' = ClearDtz(DTZTable)
    /\ ilast' = "init"
    /\ icleared' = [dtz |-> Len(DTZTable),
                    ready |-> Cardinality({ i \in 1..Len(WDLTable) : WDLTable[i].ready })]
    /\ iout' = NoProbe
    /\ UNCHANGED <<dtzFiles, dtzOut>>
    /\ UNCHANGED notInit

\* 1154-1165: the entry of the key, when there is one, is loaded at its
\* first probe
wdl_loaded(key) ==
    LET e == hash_lookup(WDLHash, key)
    IN  IF e = 0 THEN WDLTable
        ELSE [WDLTable EXCEPT ![e].ready = TRUE, ![e].baseAddress = TRUE]

\* 1138-1149: what probe_wdl_table finds for the position
wdl_found(p) ==
    IF OnlyKings(p) THEN "kvk"
    ELSE IF hash_lookup(WDLHash, material_key(p.pieces, p.c)) = 0 THEN "none"
    ELSE "nodtz"

\* Tablebases::probe_wdl (1661-1735) on a position without en-passant
\* rights: probe_ab, whose last step is probe_wdl_table (1138-1170) on the
\* position itself
tb_probe_wdl ==
    /\ ~exited
    /\ \E p \in TbPositions :
          /\ WDLTable' = IF OnlyKings(p) THEN WDLTable
                         ELSE wdl_loaded(material_key(p.pieces, p.c))
          /\ iout' = [call |-> "probe_wdl", kings |-> OnlyKings(p),
                      s |-> probe_wdl(TbNode(p, wdl_found(p)), <<>>).s]
    /\ ilast' = "probe_wdl"
    /\ UNCHANGED <<WDLHash, MaxCardinality, TBPaths, exited, icleared>>
    /\ UNCHANGED dtzVars
    /\ UNCHANGED notInit

\* 1189-1204: the entry pushed for the key, none when WDLHash has no entry
PushedEntry(key) ==
    LET e == hash_lookup(WDLHash, key)
        pieces == WDLTable[e].pieces
    IN  [id |-> 0,
         key |-> material_key(pieces, 0),
         key2 |-> material_key(pieces, 1),
         base |-> IF <<pieces, "rtbz">> \in FilesAt(TBPaths) THEN 1 ELSE 0]

\* 1176-1221: the DTZ list after probe_dtz_table; g is what the undefined
\* read of an empty list's front gives for "the key matches"
dtz_list(key, g) ==
    LET match1 == IF DTZTable = <<>> THEN g ELSE Matches(DTZTable[1], key)
        spliced == IF match1 THEN DTZTable ELSE SpliceFound(DTZTable, key)
        match2 == IF spliced = <<>> THEN g ELSE Matches(spliced[1], key)
        pushed == <<PushedEntry(key)>> \o spliced
    IN  IF match1 \/ match2 THEN spliced
        ELSE IF hash_lookup(WDLHash, key) = 0 THEN spliced
        ELSE IF pushed[1].base = 0 THEN pushed
        ELSE Trim(pushed)

\* 1223-1228: probe_dtz_table hands its front entry to probe_table; b is
\* what the undefined read of an empty list's front gives for "baseAddress
\* is not null"
dtz_found(key, g, b) ==
    LET list == dtz_list(key, g)
    IN  IF list = <<>> THEN g /\ b
        ELSE Matches(list[1], key) /\ list[1].base # 0

\* probe_dtz (1452-1538) on a position without en-passant rights and
\* without pawn moves: probe_ab, and probe_dtz_table (1172-1229) unless the
\* probe failed, the position is drawn or a capture reaches the value
\* (1309-1322)
tb_probe_dtz ==
    /\ ~exited
    /\ \E p \in TbPositions :
       \E g \in IF DTZTable = <<>> THEN BOOLEAN ELSE {FALSE} :
       \E b \in IF g THEN BOOLEAN ELSE {FALSE} :
          LET key == material_key(p.pieces, p.c)
              tb == IF wdl_found(p) # "nodtz" THEN wdl_found(p)
                    ELSE IF dtz_found(key, g, b) THEN "both" ELSE "nodtz"
              ab == probe_ab(TbNode(p, tb), WDLLoss, WDLWin, 1, <<>>)
          IN  /\ WDLTable' = IF OnlyKings(p) THEN WDLTable ELSE wdl_loaded(key)
              /\ DTZTable' = IF ab.s = 1 /\ ab.v # WDLDraw THEN dtz_list(key, g)
                             ELSE DTZTable
              /\ iout' = [call |-> "probe_dtz", kings |-> OnlyKings(p),
                          s |-> probe_dtz(TbNode(p, tb), <<>>).s]
    /\ ilast' = "probe_dtz"
    /\ UNCHANGED <<WDLHash, MaxCardinality, TBPaths, exited, icleared>>
    /\ UNCHANGED <<dtzFiles, dtzOut>>
    /\ UNCHANGED notInit

(***************************************************************************)
(* The Huffman-pair decoder: set_sizes (936-974), calc_symlen (912-934)    *)
(* and decompress_pairs (507-574).  A 64 bit word is a sequence of 64 bits *)
(* with the most significant bit first, so that a big-endian read of the   *)
(* block data is a slice of the data bits.                                 *)
(***************************************************************************)

RECURSIVE PowersOf2(_)
PowersOf2(n) == IF n = 0 THEN <<1>>
                ELSE LET p == PowersOf2(n - 1) IN Append(p, 2 * p[n])

Pow2Table == PowersOf2(30)
Pow2(n) == Pow2Table[n + 1]

Zeros(n) == [i \in 1..n |-> 0]

RECURSIVE BitsToNat(_)
\* the number that at most 30 bits stand for
BitsToNat(bits) ==
    IF Len(bits) = 0 THEN 0
    ELSE IF Len(bits) = 1 THEN bits[1]
    ELSE LET half == Len(bits) \div 2
         IN  BitsToNat(SubSeq(bits, 1, half)) * Pow2(Len(bits) - half)
               + BitsToNat(SubSeq(bits, half + 1, Len(bits)))

\* a number below 2^30 in w bits
NatToBits(n, w) ==
    [i \in 1..w |-> IF w - i >= 30 THEN 0 ELSE (n \div Pow2(w - i)) % 2]

\* uint64_t <<
Shl(x, n) == SubSeq(x, n + 1, 64) \o Zeros(n)

\* uint64_t >>
Shr(x, n) == Zeros(n) \o SubSeq(x, 1, 64 - n)

\* the four 16 bit parts of a word, the most significant first
Limbs(x) == <<BitsToNat(SubSeq(x, 1, 16)), BitsToNat(SubSeq(x, 17, 32)),
              BitsToNat(SubSeq(x, 33, 48)), BitsToNat(SubSeq(x, 49, 64))>>

\* uint64_t <
Less(a, b) == \E i \in 1..64 : a[i] < b[i] /\ \A j \in 1..(i - 1) : a[j] = b[j]

\* uint64_t -, modulo 2^64, with the borrow carried up the parts
Sub(a, b) ==
    LET x  == Limbs(a)
        y  == Limbs(b)
        d4 == x[4] - y[4]
        d3 == x[3] - y[3] - (IF d4 < 0 THEN 1 ELSE 0)
        d2 == x[2] - y[2] - (IF d3 < 0 THEN 1 ELSE 0)
        d1 == x[1] - y[1] - (IF d2 < 0 THEN 1 ELSE 0)
    IN  NatToBits(d1 % 65536, 16) \o NatToBits(d2 % 65536, 16)
          \o NatToBits(d3 % 65536, 16) \o NatToBits(d4 % 65536, 16)

\* uint64_t |
Or(a, b) == [i \in 1..64 |-> IF a[i] + b[i] > 0 THEN 1 ELSE 0]

\* (int) of a uint64_t whose value is below 2^30
ToInt(x) == BitsToNat(SubSeq(x, 35, 64))

LeafMark == 4095

\* 916, 562: w = sympat + 3 * s, the bytes w[0], w[1], w[2]
W(sympat, s, k) == sympat[3 * s + k + 1]

\* 563, 922: s1 = ((w[1] & 0xf) << 8) | w[0]
PairFirst(sympat, s) == (W(sympat, s, 1) % 16) * 256 + W(sympat, s, 0)

\* 917, 569: s2 = (w[2] << 4) | (w[1] >> 4)
PairSecond(sympat, s) == W(sympat, s, 2) * 16 + W(sympat, s, 1) \div 16

RECURSIVE calc_symlen(_, _, _)
\* 912-934: st.symlen is d->symlen (uint8_t), st.tmp the visited marks
calc_symlen(sympat, s, st) ==
    LET s2 == PairSecond(sympat, s)
        s1 == PairFirst(sympat, s)
        a  == IF st.tmp[s1 + 1] = 0 THEN calc_symlen(sympat, s1, st) ELSE st
        b  == IF a.tmp[s2 + 1] = 0 THEN calc_symlen(sympat, s2, a) ELSE a
    IN  IF s2 = LeafMark
        THEN [symlen |-> [st.symlen EXCEPT ![s + 1] = 0],
              tmp    |-> [st.tmp EXCEPT ![s + 1] = 1]]
        ELSE [symlen |-> [b.symlen EXCEPT
                             ![s + 1] = (b.symlen[s1 + 1] + b.symlen[s2 + 1] + 1) % 256],
              tmp    |-> [b.tmp EXCEPT ![s + 1] = 1]]

RECURSIVE SymlenLoop(_, _, _, _)
\* 969-971: for every symbol not yet visited
SymlenLoop(sympat, i, n, st) ==
    IF i = n THEN st.symlen
    ELSE SymlenLoop(sympat, i + 1, n,
                    IF st.tmp[i + 1] = 0 THEN calc_symlen(sympat, i, st) ELSE st)

RECURSIVE BaseLoop(_, _, _)
\* 954-956: base[i] = (base[i + 1] + offset[i] - offset[i + 1]) / 2, the last
\* one zero; offset is indexed from min_len here as at 961
BaseLoop(offset, i, acc) ==
    IF i = 0 THEN acc
    ELSE BaseLoop(offset, i - 1,
                  <<(acc[1] + offset[i] - offset[i + 1]) \div 2>> \o acc)

\* 936-974, from the parsed header fields to the derived base and symlen
set_sizes(h) ==
    LET n    == h.max_len - h.min_len + 1
        raw  == BaseLoop(h.offset, n - 1, <<0>>)
        nsym == Len(h.sympat) \div 3
    IN  [h EXCEPT
           !.base = [i \in 1..n |->
                        Shl(NatToBits(raw[i], 64), (64 - h.min_len) - (i - 1))],
           !.symlen = SymlenLoop(h.sympat, 0, nsym,
                                 [symlen |-> Zeros(nsym), tmp |-> Zeros(nsym)])]

\* a bit of the mapped block data; a read past the last block gets the bit g
DataBit(h, g, p) == IF p < Len(h.data) THEN h.data[p + 1] ELSE g

\* number<uint32_t, BigEndian>(ptr), ptr counted in 32 bit words from d->data
Word32(h, g, ptr) == [i \in 1..32 |-> DataBit(h, g, 32 * ptr + i - 1)]

RECURSIVE BlockDown(_, _, _)
\* 521-522: while (litidx < 0) litidx += d->sizetable[--block] + 1
BlockDown(h, block, litidx) ==
    IF litidx < 0
    THEN BlockDown(h, block - 1, litidx + h.sizetable[block] + 1)
    ELSE <<block, litidx>>

RECURSIVE BlockUp(_, _, _)
\* 524-525: while (litidx > d->sizetable[block]) litidx -= d->sizetable[block++] + 1
BlockUp(h, block, litidx) ==
    IF litidx > h.sizetable[block + 1]
    THEN BlockUp(h, block + 1, litidx - (h.sizetable[block + 1] + 1))
    ELSE <<block, litidx>>

RECURSIVE CodeLen(_, _, _)
\* 540-541: the code length of the next symbol
CodeLen(h, code, l) ==
    IF Less(code, h.base[l - h.min_len + 1]) THEN CodeLen(h, code, l + 1) ELSE l

\* 553-556: the refill of the code word once 32 bits of it are used up
Refill_Never(h, g, code, ptr, bitcnt) == [code |-> code, ptr |-> ptr, bitcnt |-> bitcnt]

Refill(h, g, code, ptr, bitcnt) ==
    IF bitcnt >= 32
    THEN [code   |-> Or(code, Shl(Zeros(32) \o Word32(h, g, ptr), bitcnt - 32)),
          ptr    |-> ptr + 1,
          bitcnt |-> bitcnt - 32]
    ELSE [code |-> code, ptr |-> ptr, bitcnt |-> bitcnt]

\* the one element of a set

RECURSIVE SymbolLoop(_, _, _, _, _, _)
\* 537-557: the symbol that holds the value, and the value's place in it;
\* the loop variables are evaluated before the next round starts
SymbolLoop(h, g, code, ptr, bitcnt, litidx) ==
    LET l   == CodeLen(h, code, h.min_len)
        sym == h.offset[l - h.min_len + 1]
                 + ToInt(Shr(Sub(code, h.base[l - h.min_len + 1]), 64 - l))
        r   == Refill(h, g, Shl(code, l), ptr, bitcnt + l)
    IN  IF litidx < h.symlen[sym + 1] + 1
        THEN <<sym, litidx>>
        ELSE Only({SymbolLoop(h, g, v[1], v[2], v[3], v[4]) :
                      v \in {<<r.code, r.ptr, r.bitcnt,
                               litidx - (h.symlen[sym + 1] + 1)>>}})

RECURSIVE PairLoop(_, _, _)
\* 561-573: down the pair dictionary to the leaf
PairLoop(h, sym, litidx) ==
    IF h.symlen[sym + 1] # 0
    THEN LET s1 == PairFirst(h.sympat, sym)
         IN  IF litidx < h.symlen[s1 + 1] + 1
             THEN PairLoop(h, s1, litidx)
             ELSE PairLoop(h, PairSecond(h.sympat, sym),
                           litidx - (h.symlen[s1 + 1] + 1))
    ELSE W(h.sympat, sym, 0)

\* 507-574
decompress_pairs(h, g, idx) ==
    IF h.idxbits = 0 THEN h.min_len
    ELSE
    LET blockidx == idx \div Pow2(h.idxbits)
        lit0     == (idx % Pow2(h.idxbits)) - Pow2(h.idxbits - 1)
        entry    == h.indextable[blockidx + 1]
        down     == BlockDown(h, entry[1], lit0 + entry[2])
        at       == BlockUp(h, down[1], down[2])
        ptr      == (at[1] * Pow2(h.blocksize)) \div 4
        code     == Word32(h, g, ptr) \o Word32(h, g, ptr + 1)
        found    == SymbolLoop(h, g, code, ptr + 2, 0, at[2])
    IN  PairLoop(h, found[1], found[2])

(***************************************************************************)
(* Well-formed tables.  A table is laid out from a pair dictionary, the    *)
(* code lengths of its symbols (longest first, as the canonical code of    *)
(* 954-956 numbers them) and a stream of symbols: the codes are packed     *)
(* into blocks of 2^blocksize bytes, no code across two blocks, sizetable  *)
(* counts the values of a block minus one, and entry k of indextable names *)
(* the block and the place in it of value k * 2^idxbits + 2^(idxbits - 1). *)
(***************************************************************************)

Leaf(v) == [leaf |-> TRUE, v |-> v, s1 |-> 0, s2 |-> LeafMark]
Pair(s1, s2) == [leaf |-> FALSE, v |-> 0, s1 |-> s1, s2 |-> s2]

\* the three bytes of a dictionary entry
SympatBytes(e) ==
    IF e.leaf THEN <<e.v, 240, 255>>
    ELSE <<e.s1 % 256, e.s1 \div 256 + (e.s2 % 16) * 16, e.s2 \div 16>>

RECURSIVE Flatten(_)
Flatten(seqs) ==
    IF Len(seqs) = 0 THEN <<>>
    ELSE IF Len(seqs) = 1 THEN seqs[1]
    ELSE LET half == Len(seqs) \div 2
         IN  Flatten(SubSeq(seqs, 1, half)) \o Flatten(SubSeq(seqs, half + 1, Len(seqs)))

Sympat(dict) == Flatten([i \in 1..Len(dict) |-> SympatBytes(dict[i])])

RECURSIVE Expand(_, _)
\* the leaf bytes of a symbol
Expand(dict, s) ==
    IF dict[s + 1].leaf THEN <<dict[s + 1].v>>
    ELSE Expand(dict, dict[s + 1].s1) \o Expand(dict, dict[s + 1].s2)

ExpandAll(dict, syms) == Flatten([i \in 1..Len(syms) |-> Expand(dict, syms[i])])

MinOf(seq) == CHOOSE x \in {seq[i] : i \in 1..Len(seq)} : \A i \in 1..Len(seq) : x <= seq[i]
MaxOf(seq) == CHOOSE x \in {seq[i] : i \in 1..Len(seq)} : \A i \in 1..Len(seq) : x >= seq[i]

\* offset[l], l from the shortest length: the first symbol of length l
Offsets(lens) ==
    [i \in 1..(MaxOf(lens) - MinOf(lens) + 1) |->
        Cardinality({s \in 1..Len(lens) : lens[s] > MinOf(lens) + i - 1})]

\* the code of symbol s
CodeOf(lens, s) ==
    LET l   == lens[s + 1]
        off == Offsets(lens)
        raw == BaseLoop(off, Len(off) - 1, <<0>>)
        k   == l - MinOf(lens) + 1
    IN  NatToBits(raw[k] + s - off[k], l)

BitsOf(lens, syms) == Flatten([i \in 1..Len(syms) |-> CodeOf(lens, syms[i])])

SumLens(lens, syms) == Len(BitsOf(lens, syms))

RECURSIVE Pack(_, _, _)
\* the stream cut into blocks of at most cap bits, each block as full as
\* the next code allows
Pack(lens, stream, cap) ==
    IF stream = <<>> THEN <<>>
    ELSE LET fits == {k \in 1..Len(stream) : SumLens(lens, SubSeq(stream, 1, k)) <= cap}
             n    == CHOOSE k \in fits : \A j \in fits : j <= k
         IN  <<SubSeq(stream, 1, n)>> \o Pack(lens, SubSeq(stream, n + 1, Len(stream)), cap)

RECURSIVE StartOf(_, _)
\* the first value of block b, counted over the whole table
StartOf(sizes, b) == IF b = 1 THEN 0 ELSE StartOf(sizes, b - 1) + sizes[b - 1]

IndexEntry(sizes, pos) ==
    LET inside == {b \in 1..Len(sizes) :
                      StartOf(sizes, b) <= pos /\ pos < StartOf(sizes, b) + sizes[b]}
        b      == IF inside = {} THEN Len(sizes) ELSE CHOOSE x \in inside : TRUE
    IN  <<b - 1, pos - StartOf(sizes, b)>>

RECURSIVE Repeat(_, _)
Repeat(seq, n) == IF n = 0 THEN <<>> ELSE seq \o Repeat(seq, n - 1)

Table(dict, lens, stream, blocksize, idxbits) ==
    LET cap    == 8 * Pow2(blocksize)
        blocks == Pack(lens, stream, cap)
        sizes  == [b \in 1..Len(blocks) |-> Len(ExpandAll(dict, blocks[b]))]
        values == ExpandAll(dict, stream)
        nidx   == (Len(values) + Pow2(idxbits) - 1) \div Pow2(idxbits)
    IN  [ d |-> [ blocksize       |-> blocksize,
                  idxbits         |-> idxbits,
                  num_indices     |-> nidx,
                  real_num_blocks |-> Len(blocks),
                  num_blocks      |-> Len(blocks),
                  max_len         |-> MaxOf(lens),
                  min_len         |-> MinOf(lens),
                  offset          |-> Offsets(lens),
                  sympat          |-> Sympat(dict),
                  indextable      |-> [k \in 1..nidx |->
                                          IndexEntry(sizes, (k - 1) * Pow2(idxbits)
                                                               + Pow2(idxbits - 1))],
                  sizetable       |-> [b \in 1..Len(blocks) |-> sizes[b] - 1],
                  data            |-> Flatten([b \in 1..Len(blocks) |->
                                          LET bits == BitsOf(lens, blocks[b])
                                          IN  bits \o Zeros(cap - Len(bits))]),
                  base            |-> <<>>,
                  symlen          |-> <<>> ],
          values |-> values ]

Repeats == 12

\* six symbols, code lengths 4 4 4 4 2 1, nested pairs, blocks of 16 bytes
TableA ==
    Table(<<Pair(4, 5), Pair(2, 0), Pair(0, 3), Leaf(2), Leaf(0), Leaf(1)>>,
          <<4, 4, 4, 4, 2, 1>>,
          Repeat(<<5, 4, 0, 5, 2, 1, 3, 5, 4, 5>>, Repeats), 4, 4)

\* five symbols, code lengths 3 3 2 2 2, blocks of 8 bytes
TableB ==
    Table(<<Pair(2, 4), Pair(0, 0), Leaf(4), Leaf(3), Leaf(0)>>,
          <<3, 3, 2, 2, 2>>,
          Repeat(<<4, 2, 0, 3, 1, 4, 4>>, Repeats), 3, 3)

DecTables == {TableA, TableB}

NoByte == -1

DecIdle ==
    /\ hd = TableA.d
    /\ hvalues = <<>>
    /\ hidx = 0
    /\ hgarbage = 0
    /\ hpc = "idle"
    /\ hres = NoByte

DecInit ==
    /\ \E t \in DecTables :
          /\ hd = t.d
          /\ hvalues = t.values
          /\ hidx \in 0..(Len(t.values) - 1)
    /\ hgarbage \in {0, 1}
    /\ hpc = "mapped"
    /\ hres = NoByte

\* 936-974 as called from the table's init: the derived base and symlen
dec_set_sizes ==
    /\ hpc = "mapped"
    /\ hd' = set_sizes(hd)
    /\ hpc' = "ready"
    /\ UNCHANGED <<hvalues, hidx, hgarbage, hres>>
    /\ UNCHANGED notDec

\* 507-574
dec_decompress_pairs ==
    /\ hpc = "ready"
    /\ hres' = decompress_pairs(hd, hgarbage, hidx)
    /\ hpc' = "done"
    /\ UNCHANGED <<hd, hvalues, hidx, hgarbage>>
    /\ UNCHANGED notDec

(***************************************************************************)
(* The probes as the calls they make (1249-1538, 1661-1735, 1768-1812,     *)
(* 1900-1924): every function runs on the one Position object, moves on it *)
(* with do_move and takes the move back with undo_move.  A position is     *)
(* kept as far as it steers the calls: n pieces that can be captured, pw   *)
(* pawn moves left, an en-passant capture at hand, the side to move.  A    *)
(* capture takes a piece away, a pawn move uses one up, any other move     *)
(* only passes the turn, so that a line of such moves never ends.  What a  *)
(* WDL table holds, whether a table is there and whether a move is legal   *)
(* is open at every probe.  The DTZ numbers steer no call and are not      *)
(* kept.                                                                   *)
(***************************************************************************)
MaxExtra == 2
MaxPawnMoves == 1

WdlValues == WDLLoss..WDLWin

KPositions ==
    { [n |-> n, pw |-> w, ep |-> e, stm |-> c] :
        n \in 0..MaxExtra, w \in 0..MaxPawnMoves, e \in BOOLEAN, c \in {0, 1} }

\* the DTZ tables.  One table serves the root and every position a line of
\* non-zeroing moves leads to: material and pawns stay.  flags is read as
\* the bucket's STM bit seen from the side the table's key names; for a
\* symmetric table only white to move is stored
KTables ==
    { t \in [symmetric : BOOLEAN, hasPawns : BOOLEAN, flags : {0, FlagSTM}] :
        t.symmetric => t.flags = 0 }

\* the generated moves, in the order of the list
KMoves(pos) ==
    (IF pos.n > 0 THEN <<"cap">> ELSE <<>>)
    \o (IF pos.ep THEN <<"ep">> ELSE <<>>)
    \o (IF pos.pw > 0 THEN <<"push">> ELSE <<>>)
    \o <<"quiet">>

\* the position after a move; a pawn move next to a pawn leaves the
\* en-passant capture to the other side
Apply(pos, m) ==
    IF m \in {"cap", "ep"}
    THEN [n |-> pos.n - 1, pw |-> pos.pw, ep |-> FALSE, stm |-> 1 - pos.stm]
    ELSE IF m = "push"
    THEN [n |-> pos.n, pw |-> pos.pw - 1, ep |-> pos.n > 0, stm |-> 1 - pos.stm]
    ELSE [n |-> pos.n, pw |-> pos.pw, ep |-> FALSE, stm |-> 1 - pos.stm]

\* st.rule50 == 0 after the move
Zeroing(m) == m # "quiet"

do_move(pos, undo, m) == [pos |-> Apply(pos, m), undo |-> Append(undo, pos)]

undo_move_Skipped(pos, undo) == [pos |-> pos, undo |-> undo]

undo_move(pos, undo) ==
    [pos |-> undo[Len(undo)], undo |-> SubSeq(undo, 1, Len(undo) - 1)]

OtherSide_Always(pos) == TRUE

\* 644-659, 693-695: probe_table on the DTZ entry fails with *success = -1
OtherSide(pos) ==
    ~check_dtz_stm(ktable, ktable.flags, IF ktable.symmetric THEN 0 ELSE pos.stm)

KFrame(fn, alpha, beta, pos, undo) ==
    [ fn |-> fn, pc |-> "start", i |-> 1, alpha |-> alpha, beta |-> beta,
      wdl |-> WDLDraw, entry |-> [pos |-> pos, plies |-> Len(undo)] ]

NoPosition == [n |-> 0, pw |-> 0, ep |-> FALSE, stm |-> 0]

NoFrame == [fn |-> "none", at |-> "none",
            entry |-> [pos |-> NoPosition, plies |-> 0],
            exit |-> [pos |-> NoPosition, plies |-> 0]]

CallIdle ==
    /\ kpos = NoPosition
    /\ kundo = <<>>
    /\ kstack = <<>>
    /\ ksuccess = 1
    /\ kret = WDLDraw
    /\ klast = NoFrame
    /\ ktable = [symmetric |-> FALSE, hasPawns |-> FALSE, flags |-> 0]

\* white to move at the root; black to move is the same with the other flag
CallInit ==
    /\ kpos \in {pos \in KPositions : pos.stm = 0 /\ (pos.ep => pos.n > 0)}
    /\ kundo = <<>>
    /\ kstack = <<>>
    /\ ksuccess \in {0, 1}
    /\ kret = WDLDraw
    /\ klast = NoFrame
    /\ ktable \in {t \in KTables : kpos.pw > 0 => t.hasPawns}

KTop == kstack[Len(kstack)]
At(fn, label) == kstack # <<>> /\ KTop.fn = fn /\ KTop.pc = label

\* the frame on top goes on as f
KGo(f, pos, undo, s) ==
    /\ kstack' = [kstack EXCEPT ![Len(kstack)] = f]
    /\ kpos' = pos
    /\ kundo' = undo
    /\ ksuccess' = s
    /\ UNCHANGED <<kret, klast, ktable>>

\* the frame on top goes on as f when the call of g has returned
KCall(f, g, pos, undo, s) ==
    /\ kstack' = Append([kstack EXCEPT ![Len(kstack)] = f], g)
    /\ kpos' = pos
    /\ kundo' = undo
    /\ ksuccess' = s
    /\ UNCHANGED <<kret, klast, ktable>>

\* the frame on top returns v
KReturn(v, pos, undo, s) ==
    /\ kstack' = SubSeq(kstack, 1, Len(kstack) - 1)
    /\ kpos' = pos
    /\ kundo' = undo
    /\ ksuccess' = s
    /\ kret' = v
    /\ klast' = [fn |-> KTop.fn, at |-> KTop.pc, entry |-> KTop.entry,
                 exit |-> [pos |-> pos, plies |-> Len(undo)]]
    /\ UNCHANGED ktable

Goto(f, label) == [f EXCEPT !.pc = label]
Step(f, label) == [f EXCEPT !.pc = label, !.i = @ + 1]

\* a caller outside calls one of the public probes on the root
k_call ==
    /\ kstack = <<>>
    /\ klast = NoFrame
    /\ \E fn \in {"wdl", "dtz", "root", "root_wdl"} :
          kstack' = <<KFrame(fn, WDLLoss, WDLWin, kpos, kundo)>>
    /\ UNCHANGED <<kpos, kundo, ksuccess, kret, klast, ktable>>
    /\ UNCHANGED notCall

\* probe_ab 1249-1265: the captures are generated
ab_start ==
    /\ At("ab", "start")
    /\ KGo(Goto(KTop, "loop"), kpos, kundo, ksuccess)
    /\ UNCHANGED notCall

\* probe_ab 1267-1276: the next move of the list
ab_loop ==
    /\ At("ab", "loop")
    /\ LET f  == KTop
           ms == KMoves(f.entry.pos)
       IN  IF f.i > Len(ms) THEN KGo(Goto(f, "table"), kpos, kundo, ksuccess)
           ELSE \E legal \in BOOLEAN :
                  IF ms[f.i] # "cap" \/ ~legal
                  THEN KGo(Step(f, "loop"), kpos, kundo, ksuccess)
                  ELSE LET d == do_move(kpos, kundo, ms[f.i])
                       IN  KCall(Goto(f, "back"),
                                 KFrame("ab", -f.beta, -f.alpha, d.pos, d.undo),
                                 d.pos, d.undo, ksuccess)
    /\ UNCHANGED notCall

\* probe_ab 1277-1289: the call has returned
ab_back ==
    /\ At("ab", "back")
    /\ LET f     == KTop
           u     == undo_move(kpos, kundo)
           value == -kret
       IN  IF ksuccess = 0 THEN KReturn(WDLDraw, u.pos, u.undo, ksuccess)
           ELSE IF value > f.alpha /\ value >= f.beta
           THEN KReturn(value, u.pos, u.undo, 2)
           ELSE KGo([Step(f, "loop") EXCEPT
                        !.alpha = IF value > f.alpha THEN value ELSE f.alpha],
                    u.pos, u.undo, ksuccess)
    /\ UNCHANGED notCall

\* probe_ab 1292-1304: the table of the position
ab_table ==
    /\ At("ab", "table")
    /\ \E found \in BOOLEAN : \E value \in WdlValues :
          IF ~found THEN KReturn(WDLDraw, kpos, kundo, 0)
          ELSE IF ksuccess = 0 THEN KReturn(WDLDraw, kpos, kundo, ksuccess)
          ELSE IF KTop.alpha >= value
          THEN KReturn(KTop.alpha, kpos, kundo, 1 + (IF KTop.alpha > 0 THEN 1 ELSE 0))
          ELSE KReturn(value, kpos, kundo, 1)
    /\ UNCHANGED notCall

\* probe_dtz_no_ep 1313
noep_start ==
    /\ At("noep", "start")
    /\ KCall(Goto(KTop, "after"), KFrame("ab", WDLLoss, WDLWin, kpos, kundo),
             kpos, kundo, ksuccess)
    /\ UNCHANGED notCall

\* probe_dtz_no_ep 1313-1334
noep_after ==
    /\ At("noep", "after")
    /\ LET wdl == kret
       IN  IF ksuccess = 0 \/ wdl = WDLDraw \/ ksuccess = 2
           THEN KReturn(kret, kpos, kundo, ksuccess)
           ELSE KGo([KTop EXCEPT !.pc = IF wdl > 0 THEN "pawns" ELSE "table",
                                 !.wdl = wdl, !.i = 1],
                    kpos, kundo, ksuccess)
    /\ UNCHANGED notCall

\* probe_dtz_no_ep 1337-1346: the pawn moves of a won position
noep_pawns ==
    /\ At("noep", "pawns")
    /\ LET f  == KTop
           ms == KMoves(f.entry.pos)
       IN  IF f.i > Len(ms) THEN KGo(Goto(f, "table"), kpos, kundo, ksuccess)
           ELSE \E legal \in BOOLEAN :
                  IF ms[f.i] # "push" \/ ~legal
                  THEN KGo(Step(f, "pawns"), kpos, kundo, ksuccess)
                  ELSE LET d == do_move(kpos, kundo, ms[f.i])
                       IN  KCall(Goto(f, "pawns_back"),
                                 KFrame("ab", WDLLoss, -f.wdl + WDLCursedWin,
                                        d.pos, d.undo),
                                 d.pos, d.undo, ksuccess)
    /\ UNCHANGED notCall

\* probe_dtz_no_ep 1347-1353
noep_pawns_back ==
    /\ At("noep", "pawns_back")
    /\ LET f == KTop
           u == undo_move(kpos, kundo)
           v == -kret
       IN  IF ksuccess = 0 \/ v = f.wdl
           THEN KReturn(kret, u.pos, u.undo, ksuccess)
           ELSE KGo(Step(f, "pawns"), u.pos, u.undo, ksuccess)
    /\ UNCHANGED notCall

\* probe_dtz_no_ep 1356-1363 with probe_dtz_table: no table gives
\* *success = 0, a table of the other side -1
noep_table ==
    /\ At("noep", "table")
    /\ \E found \in BOOLEAN :
          LET s == IF ~found THEN 0
                   ELSE IF OtherSide(kpos) THEN -1
                   ELSE ksuccess
          IN  IF s >= 0 THEN KReturn(kret, kpos, kundo, s)
              ELSE KGo([KTop EXCEPT !.pc = IF KTop.wdl > 0 THEN "win" ELSE "loss",
                                    !.i = 1],
                       kpos, kundo, s)
    /\ UNCHANGED notCall

\* probe_dtz_no_ep 1364-1375, 1385: the quiet moves of a won position
noep_win ==
    /\ At("noep", "win")
    /\ LET f  == KTop
           ms == KMoves(f.entry.pos)
       IN  IF f.i > Len(ms) THEN KReturn(kret, kpos, kundo, ksuccess)
           ELSE \E legal \in BOOLEAN :
                  IF Zeroing(ms[f.i]) \/ ~legal
                  THEN KGo(Step(f, "win"), kpos, kundo, ksuccess)
                  ELSE LET d == do_move(kpos, kundo, ms[f.i])
                       IN  KCall(Goto(f, "win_back"),
                                 KFrame("dtz", WDLLoss, WDLWin, d.pos, d.undo),
                                 d.pos, d.undo, ksuccess)
    /\ UNCHANGED notCall

\* probe_dtz_no_ep 1376-1383
noep_win_back ==
    /\ At("noep", "win_back")
    /\ LET u == undo_move(kpos, kundo)
       IN  IF ksuccess = 0 THEN KReturn(kret, u.pos, u.undo, ksuccess)
           ELSE KGo(Step(KTop, "win"), u.pos, u.undo, ksuccess)
    /\ UNCHANGED notCall

\* probe_dtz_no_ep 1386-1411, 1422: every legal move of a lost position
noep_loss ==
    /\ At("noep", "loss")
    /\ LET f  == KTop
           ms == KMoves(f.entry.pos)
       IN  IF f.i > Len(ms) THEN KReturn(kret, kpos, kundo, ksuccess)
           ELSE \E legal \in BOOLEAN :
                  IF ~legal THEN KGo(Step(f, "loss"), kpos, kundo, ksuccess)
                  ELSE LET d == do_move(kpos, kundo, ms[f.i])
                           u == undo_move(d.pos, d.undo)
                       IN  IF Zeroing(ms[f.i]) /\ f.wdl = WDLLoss
                           THEN IF ksuccess = 0
                                THEN KReturn(kret, u.pos, u.undo, ksuccess)
                                ELSE KGo(Step(f, "loss"), u.pos, u.undo, ksuccess)
                           ELSE IF Zeroing(ms[f.i])
                           THEN KCall(Goto(f, "loss_back"),
                                      KFrame("ab", WDLCursedWin, WDLWin, d.pos, d.undo),
                                      d.pos, d.undo, ksuccess)
                           ELSE KCall(Goto(f, "loss_back"),
                                      KFrame("dtz", WDLLoss, WDLWin, d.pos, d.undo),
                                      d.pos, d.undo, ksuccess)
    /\ UNCHANGED notCall

\* probe_dtz_no_ep 1413-1420
noep_loss_back ==
    /\ At("noep", "loss_back")
    /\ LET u == undo_move(kpos, kundo)
       IN  IF ksuccess = 0 THEN KReturn(kret, u.pos, u.undo, ksuccess)
           ELSE KGo(Step(KTop, "loss"), u.pos, u.undo, ksuccess)
    /\ UNCHANGED notCall

\* probe_dtz 1454-1455
dtz_start ==
    /\ At("dtz", "start")
    /\ KCall(Goto(KTop, "after"), KFrame("noep", WDLLoss, WDLWin, kpos, kundo),
             kpos, kundo, 1)
    /\ UNCHANGED notCall

\* probe_dtz 1457-1471
dtz_after ==
    /\ At("dtz", "after")
    /\ IF ~kpos.ep \/ ksuccess = 0 THEN KReturn(kret, kpos, kundo, ksuccess)
       ELSE KGo([KTop EXCEPT !.pc = "ep", !.i = 1], kpos, kundo, ksuccess)
    /\ UNCHANGED notCall

\* probe_dtz 1477-1485, 1493-1537: the en-passant captures; the rest of the
\* function makes no move
dtz_ep ==
    /\ At("dtz", "ep")
    /\ LET f  == KTop
           ms == KMoves(f.entry.pos)
       IN  IF f.i > Len(ms) THEN KReturn(kret, kpos, kundo, ksuccess)
           ELSE \E legal \in BOOLEAN :
                  IF ms[f.i] # "ep" \/ ~legal
                  THEN KGo(Step(f, "ep"), kpos, kundo, ksuccess)
                  ELSE LET d == do_move(kpos, kundo, ms[f.i])
                       IN  KCall(Goto(f, "ep_back"),
                                 KFrame("ab", WDLLoss, WDLWin, d.pos, d.undo),
                                 d.pos, d.undo, ksuccess)
    /\ UNCHANGED notCall

\* probe_dtz 1486-1491
dtz_ep_back ==
    /\ At("dtz", "ep_back")
    /\ LET u == undo_move(kpos, kundo)
       IN  IF ksuccess = 0 THEN KReturn(kret, u.pos, u.undo, ksuccess)
           ELSE KGo(Step(KTop, "ep"), u.pos, u.undo, ksuccess)
    /\ UNCHANGED notCall

\* Tablebases::probe_wdl 1663-1664
wdl_start ==
    /\ At("wdl", "start")
    /\ KCall(Goto(KTop, "after"), KFrame("ab", WDLLoss, WDLWin, kpos, kundo),
             kpos, kundo, 1)
    /\ UNCHANGED notCall

\* Tablebases::probe_wdl 1667-1684
wdl_after ==
    /\ At("wdl", "after")
    /\ IF ~kpos.ep \/ ksuccess = 0 THEN KReturn(kret, kpos, kundo, ksuccess)
       ELSE KGo([KTop EXCEPT !.pc = "ep", !.i = 1], kpos, kundo, ksuccess)
    /\ UNCHANGED notCall

\* Tablebases::probe_wdl 1686-1695, 1703-1734
wdl_ep ==
    /\ At("wdl", "ep")
    /\ LET f  == KTop
           ms == KMoves(f.entry.pos)
       IN  IF f.i > Len(ms) THEN KReturn(kret, kpos, kundo, ksuccess)
           ELSE \E legal \in BOOLEAN :
                  IF ms[f.i] # "ep" \/ ~legal
                  THEN KGo(Step(f, "ep"), kpos, kundo, ksuccess)
                  ELSE LET d == do_move(kpos, kundo, ms[f.i])
                       IN  KCall(Goto(f, "ep_back"),
                                 KFrame("ab", WDLLoss, WDLWin, d.pos, d.undo),
                                 d.pos, d.undo, ksuccess)
    /\ UNCHANGED notCall

\* Tablebases::probe_wdl 1696-1701
wdl_ep_back ==
    /\ At("wdl", "ep_back")
    /\ LET u == undo_move(kpos, kundo)
       IN  IF ksuccess = 0 THEN KReturn(kret, u.pos, u.undo, ksuccess)
           ELSE KGo(Step(KTop, "ep"), u.pos, u.undo, ksuccess)
    /\ UNCHANGED notCall

\* Tablebases::root_probe 1770-1771
root_start ==
    /\ At("root", "start")
    /\ KCall(Goto(KTop, "after"), KFrame("dtz", WDLLoss, WDLWin, kpos, kundo),
             kpos, kundo, ksuccess)
    /\ UNCHANGED notCall

\* Tablebases::root_probe 1773-1777
root_after ==
    /\ At("root", "after")
    /\ IF ksuccess = 0 THEN KReturn(kret, kpos, kundo, ksuccess)
       ELSE KGo([KTop EXCEPT !.pc = "loop", !.i = 1], kpos, kundo, ksuccess)
    /\ UNCHANGED notCall

\* Tablebases::root_probe 1780-1804: the root moves are the legal moves of
\* the root; mate: the move gives mate and dtz > 0, no probe is made
root_move ==
    /\ At("root", "loop")
    /\ LET f  == KTop
           ms == KMoves(f.entry.pos)
       IN  IF f.i > Len(ms) THEN KReturn(kret, kpos, kundo, ksuccess)
           ELSE LET d == do_move(kpos, kundo, ms[f.i])
                    u == undo_move(d.pos, d.undo)
                IN  \E mate \in BOOLEAN :
                      IF mate THEN KGo(Step(f, "loop"), u.pos, u.undo, ksuccess)
                      ELSE KCall(Goto(f, "back"),
                                 KFrame(IF Zeroing(ms[f.i]) THEN "wdl" ELSE "dtz",
                                        WDLLoss, WDLWin, d.pos, d.undo),
                                 d.pos, d.undo, ksuccess)
    /\ UNCHANGED notCall

\* Tablebases::root_probe 1806-1811
root_back ==
    /\ At("root", "back")
    /\ LET u == undo_move(kpos, kundo)
       IN  IF ksuccess = 0 THEN KReturn(kret, u.pos, u.undo, ksuccess)
           ELSE KGo(Step(KTop, "loop"), u.pos, u.undo, ksuccess)
    /\ UNCHANGED notCall

\* Tablebases::root_probe_wdl 1902-1904
root_wdl_start ==
    /\ At("root_wdl", "start")
    /\ KCall(Goto(KTop, "after"), KFrame("wdl", WDLLoss, WDLWin, kpos, kundo),
             kpos, kundo, ksuccess)
    /\ UNCHANGED notCall

\* Tablebases::root_probe_wdl 1906-1914
root_wdl_after ==
    /\ At("root_wdl", "after")
    /\ IF ksuccess = 0 THEN KReturn(kret, kpos, kundo, ksuccess)
       ELSE KGo([KTop EXCEPT !.pc = "loop", !.i = 1], kpos, kundo, ksuccess)
    /\ UNCHANGED notCall

\* Tablebases::root_probe_wdl 1917-1920, 1932-1941
root_wdl_move ==
    /\ At("root_wdl", "loop")
    /\ LET f  == KTop
           ms == KMoves(f.entry.pos)
       IN  IF f.i > Len(ms) THEN KReturn(kret, kpos, kundo, ksuccess)
           ELSE LET d == do_move(kpos, kundo, ms[f.i])
                IN  KCall(Goto(f, "back"),
                          KFrame("wdl", WDLLoss, WDLWin, d.pos, d.undo),
                          d.pos, d.undo, ksuccess)
    /\ UNCHANGED notCall

\* Tablebases::root_probe_wdl 1921-1930
root_wdl_back ==
    /\ At("root_wdl", "back")
    /\ LET u == undo_move(kpos, kundo)
       IN  IF ksuccess = 0 THEN KReturn(kret, u.pos, u.undo, ksuccess)
           ELSE KGo(Step(KTop, "loop"), u.pos, u.undo, ksuccess)
    /\ UNCHANGED notCall

Init == WdlInit /\ DtzIdle /\ DtzParIdle /\ ProbeIdle /\ EncIdle /\ DecIdle /\ EncDtzIdle /\ RootIdle /\ InitIdle /\ CallIdle

Next == \E t \in Threads : probe_wdl_table(t)

Spec == Init /\ [][Next]_vars

InitDtzSeq == WdlIdle /\ DtzSeqInit /\ DtzParIdle /\ ProbeIdle /\ EncIdle /\ DecIdle /\ EncDtzIdle /\ RootIdle /\ InitIdle /\ CallIdle
NextDtzSeq == DtzSeqProbe
SpecDtzSeq == InitDtzSeq /\ [][NextDtzSeq]_vars

InitDtzPar == WdlIdle /\ DtzParInit /\ ProbeIdle /\ EncIdle /\ DecIdle /\ EncDtzIdle /\ RootIdle /\ InitIdle /\ CallIdle
NextDtzPar == \E t \in Threads : probe_dtz_table_par(t)
SpecDtzPar == InitDtzPar /\ [][NextDtzPar]_vars

InitProbe == WdlIdle /\ DtzIdle /\ DtzParIdle /\ ProbeInit /\ EncIdle /\ DecIdle /\ EncDtzIdle /\ RootIdle /\ InitIdle /\ CallIdle
NextProbe == call_probe_wdl \/ call_probe_dtz
SpecProbe == InitProbe /\ [][NextProbe]_vars

InitEnc == WdlIdle /\ DtzIdle /\ DtzParIdle /\ ProbeIdle /\ EncInit /\ DecIdle /\ EncDtzIdle /\ RootIdle /\ InitIdle /\ CallIdle
NextEnc == enc_probe \/ enc_image \/ enc_probe_image
SpecEnc == InitEnc /\ [][NextEnc]_vars

InitLead == WdlIdle /\ DtzIdle /\ DtzParIdle /\ ProbeIdle /\ LeadInit /\ DecIdle /\ EncDtzIdle /\ RootIdle /\ InitIdle /\ CallIdle
NextLead == enc_probe
SpecLead == InitLead /\ [][NextLead]_vars

InitCall == WdlIdle /\ DtzIdle /\ DtzParIdle /\ ProbeIdle /\ EncIdle /\ DecIdle /\ EncDtzIdle /\ RootIdle /\ InitIdle /\ CallInit
NextCall ==
    \/ k_call
    \/ ab_start \/ ab_loop \/ ab_back \/ ab_table
    \/ noep_start \/ noep_after \/ noep_pawns \/ noep_pawns_back \/ noep_table
    \/ noep_win \/ noep_win_back \/ noep_loss \/ noep_loss_back
    \/ dtz_start \/ dtz_after \/ dtz_ep \/ dtz_ep_back
    \/ wdl_start \/ wdl_after \/ wdl_ep \/ wdl_ep_back
    \/ root_start \/ root_after \/ root_move \/ root_back
    \/ root_wdl_start \/ root_wdl_after \/ root_wdl_move \/ root_wdl_back
SpecCall == InitCall /\ [][NextCall]_vars

SpecCallFair == SpecCall /\ WF_vars(NextCall)

InitDec == WdlIdle /\ DtzIdle /\ DtzParIdle /\ ProbeIdle /\ EncIdle /\ DecInit /\ EncDtzIdle /\ RootIdle /\ InitIdle /\ CallIdle
NextDec == dec_set_sizes \/ dec_decompress_pairs
SpecDec == InitDec /\ [][NextDec]_vars

InitEncDtz == WdlIdle /\ DtzIdle /\ DtzParIdle /\ ProbeIdle /\ EncInit /\ DecIdle /\ EncDtzIdle /\ RootIdle /\ InitIdle /\ CallIdle
NextEncDtz == enc_probe_dtz
SpecEncDtz == InitEncDtz /\ [][NextEncDtz]_vars

InitRoot == WdlIdle /\ DtzIdle /\ DtzParIdle /\ RootInit /\ EncIdle /\ DecIdle /\ EncDtzIdle /\ InitIdle /\ CallIdle
NextRoot == call_root_probe \/ call_root_probe_wdl \/ call_probe_wdl \/ call_probe_dtz
SpecRoot == InitRoot /\ [][NextRoot]_vars

\* the process before the first init: the globals as they are constructed
InitInit == WdlIdle /\ DtzIdle /\ DtzParIdle /\ ProbeIdle /\ EncIdle /\ DecIdle /\ EncDtzIdle /\ RootIdle /\ InitIdle /\ CallIdle
NextInit == tb_init \/ tb_probe_wdl \/ tb_probe_dtz
SpecInit == InitInit /\ [][NextInit]_vars

AllWdlDone == \A t \in Threads : pc[t] = "done"

(***************************************************************************)
(* C1: when K threads probe the same previously-unloaded WDL table, init   *)
(* is invoked exactly once, at most one init succeeds, and all K probes    *)
(* return the same result.                                                 *)
(***************************************************************************)
C1_InitOnceSameResult ==
    (registered /\ AllWdlDone) =>
        /\ initCalls = 1
        /\ initOk <= 1
        /\ \A t, u \in Threads : result[t] = result[u] /\ success[t] = success[u]

(***************************************************************************)
(* C2: ready is true only after init has returned success, and a thread    *)
(* decodes from the entry (probe_table) only when init has completely      *)
(* finished: no thread is inside init of the entry while ready is true or  *)
(* while another thread decodes, and no decode reads incomplete fields.    *)
(***************************************************************************)
InsideInit(t) == pc[t] \in {"do_init", "do_init_fill"}

C2_DecodeAfterInit ==
    /\ ready => (baseAddress /\ precomp = "parsed" /\ initOk >= 1)
    /\ ready => \A t \in Threads : ~InsideInit(t)
    /\ \A t \in Threads : pc[t] = "probe_table" =>
           (ready /\ precomp = "parsed" /\ \A u \in Threads : ~InsideInit(u))
    /\ \A t \in Threads : ~torn[t]

\* a thread that read ready = true on the lock-free path is about to decode
\* while the thread that ran init has returned its value
C2_Witness ==
    \E t, u \in Threads :
        /\ t # u
        /\ pc[t] = "probe_table" /\ seenReady[t] = "acquire"
        /\ pc[u] = "done" /\ seenReady[u] = "none" /\ success[u] = 1
        /\ result[u] = tbValue

(***************************************************************************)
(* C3: after any sequence of DTZ probes, whether the table's init succeeds *)
(* or fails, the DTZ list holds at most 64 entries.                        *)
(***************************************************************************)
C3_DtzListBounded == Len(DTZTable) <= DTZ_MAX

(***************************************************************************)
(* C4: every mutation of the DTZ list made by a probe (splice, push_front, *)
(* init of the new entry, pop_back) is performed while TB_mutex is held,   *)
(* so two concurrent probes never mutate the list at the same time.        *)
(***************************************************************************)
MutatesDtzList(t) == dpc[t] \in {"splice", "push_link", "init", "trim"}

C4_MutationsUnderMutex ==
    /\ \A t \in Threads : MutatesDtzList(t) => TB_mutex = t
    /\ \A t, u \in Threads : (MutatesDtzList(t) /\ MutatesDtzList(u)) => t = u

(***************************************************************************)
(* C5: in every interleaving of concurrent DTZ probes, the entry that a    *)
(* probe_dtz_table call hands to probe_table has key or key2 equal to the  *)
(* material key of the call's position, and it stays in the list while the *)
(* call decodes from it.                                                   *)
(***************************************************************************)
C5_HandedEntryMatchesAndStays ==
    \A t \in Threads : dpc[t] = "decode" =>
        /\ Matches(handed[t], dkey[t])
        /\ \E i \in 1..Len(DTZTable) : DTZTable[i].id = handed[t].id

Sign(n) == IF n > 0 THEN 1 ELSE IF n < 0 THEN -1 ELSE 0

BothProbed == pcalled = {"wdl", "dtz"} /\ pwdl.s # 0 /\ pdtz.s # 0

(***************************************************************************)
(* C6: on a position where probe_wdl and probe_dtz both succeed, the sign  *)
(* of the probe_dtz value is the sign of the probe_wdl value: 0 for a      *)
(* draw, positive for a win or cursed win, negative for a loss or cursed   *)
(* loss, en-passant positions included.                                    *)
(***************************************************************************)
C6_DtzSignIsWdlSign == BothProbed => Sign(pdtz.v) = Sign(pwdl.v)

\* an en-passant capture turns a loss into a cursed loss for both probes
C6_Witness ==
    /\ BothProbed
    /\ HasEp(ppos)
    /\ probe_dtz_no_ep(ppos, 1, <<>>).v \in -100..-1
    /\ pdtz.v = -101
    /\ pwdl.v = WDLCursedLoss

(***************************************************************************)
(* C7: for a successful probe_dtz value dtz, |dtz| <= 100 exactly when the *)
(* WDL value of the position is not cursed.                                *)
(***************************************************************************)
C7_CursedIffOver100 ==
    BothProbed => (Abs(pdtz.v) <= 100 <=> pwdl.v \notin {WDLCursedWin, WDLCursedLoss})

\* a cursed win found through the successors, the DTZ table storing the
\* other side
C7_Witness ==
    /\ BothProbed
    /\ ppos.tb = "wrong"
    /\ pwdl.v = WDLCursedWin
    /\ pdtz.v = 101
    /\ pdtz.s = 1

EncBoth == esym # "none" /\ eres1 # NoIndex

(***************************************************************************)
(* C8: for a position of symmetric material, the position and its mirror   *)
(* (board flipped vertically, colours swapped, side to move swapped) are   *)
(* mapped to the same table bucket and the same index.                     *)
(***************************************************************************)
C8_MirrorSameIndex ==
    (EncBoth /\ esym = "colour" /\ etab.symmetric) => eres1 = eres0

\* black to move in a table with pawns on both sides: the mirror is probed
\* without a flip and lands in the same bucket, on an index of the table
C8_Witness ==
    /\ EncBoth
    /\ esym = "colour"
    /\ etab.symmetric
    /\ etab.hasPawns
    /\ eorig.stm = 1
    /\ eres1 = eres0
    /\ eres0.idx > 0
    /\ eres0.tbFile > 0

LeadPawnTie(pos, e) ==
    /\ e.hasPawns
    /\ LET a == Arrange(pos, e)
       IN  a.leadPawnsCnt >= 2 /\ Flap(a.squares[1]) = Flap(a.squares[2])

\* the pieces encoded first are not all on the a1-h8 diagonal, or every piece is
DiagonalDecided(pos, e) ==
    LET sq == VFlipIfHigh(Arrange(pos, e).squares)
    IN  \/ \E i \in 1..DiagLimit(e.hasUniquePieces) : off_A1H8(sq[i]) # 0
        \/ \A i \in 1..Len(sq) : off_A1H8(sq[i]) = 0

C10_DecodedByteIsExpansionByte ==
    hpc = "done" => hres = hvalues[hidx + 1]

\* a value behind the first refill of the code word, inside a nested pair,
\* in a block after the first
C10_Witness ==
    /\ hpc = "done"
    /\ hres = hvalues[hidx + 1]
    /\ hd.blocksize = 4
    /\ hidx > hd.sizetable[1] + 60
    /\ hres = 2
    /\ hvalues[hidx] = 1

(***************************************************************************)
(* C11: on every return of probe_wdl, success is 0, 1 or 2 and the score   *)
(* is one of -2..2; the -3 that stands for "no en-passant capture found"   *)
(* is never returned.                                                      *)
(***************************************************************************)
C11_ProbeWdlRange ==
    "wdl" \in pcalled => pwdl.s \in {0, 1, 2} /\ pwdl.v \in WDLScores

\* the only en-passant capture is illegal and nothing else can be played:
\* v1 is still -3 when the loop is over
C11_Witness ==
    /\ "wdl" \in pcalled
    /\ HasEp(ppos)
    /\ ~HasLegalNonEp(ppos)
    /\ ep_loop(ppos, 1, NoEpValue, 1, <<>>).v = NoEpValue
    /\ pwdl.v = WDLDraw
    /\ pwdl.s = 1

(***************************************************************************)
(* C12: when a table lookup made during probe_wdl, probe_dtz, root_probe   *)
(* or root_probe_wdl, the lookups of the recursive calls included, reports *)
(* success = 0, the outermost call returns with success = 0 (a root probe  *)
(* returns false) and no table lookup is made after the failing one.       *)
(***************************************************************************)
\* in the record t of the lookups a failed lookup is the last one, and the
\* operation reported the failure
FailedLast(t, failed) ==
    \A i \in 1..Len(t) : t[i] = 0 => (i = Len(t) /\ failed)

\* C12: a failed lookup is the last lookup of the call, and the call fails
C12_FailureStopsProbe ==
    /\ "wdl" \in pcalled => FailedLast(pwdl.t, pwdl.s = 0)
    /\ "dtz" \in pcalled => FailedLast(pdtz.t, pdtz.s = 0)
    /\ rcalled # "none" => FailedLast(rlooked, ~rret)

\* root_probe finds the table of the second root move missing, after the
\* lookups for the root and for the first move
C12_Witness ==
    /\ rcalled = "root_probe"
    /\ Len(ppos.moves) = 2
    /\ ppos.moves[2].child.tb = "none"
    /\ Len(rlooked) >= 4
    /\ rlooked[Len(rlooked)] = 0
    /\ ~rret

(***************************************************************************)
(* C13: probe_table on a DTZ entry sets success to -1 and returns 0        *)
(* without decoding exactly when the STM bit of the bucket's flags differs *)
(* from the canonical side to move and the table is not both symmetric and *)
(* pawnless; otherwise it decodes a value and leaves success as it was.    *)
(***************************************************************************)
WrongSide ==
    LET a == Arrange(epos, etab)
    IN  /\ eflags[a.tbFile + 1] % 2 # a.stm
        /\ ~(etab.symmetric /\ ~etab.hasPawns)

\* C13: success = -1, value 0 and nothing decoded exactly on the wrong side
C13_DtzWrongSide ==
    edtz # NoDtz =>
        IF WrongSide
        THEN edtz = [v |-> 0, s |-> -1, decoded |-> FALSE]
        ELSE edtz.decoded /\ edtz.s = esuccess

\* a pawn table whose buckets differ by file: the bucket of the leading
\* pawn's file holds the other side, success was 2 before the lookup
C13_Witness ==
    /\ edtz = [v |-> 0, s |-> -1, decoded |-> FALSE]
    /\ esuccess = 2
    /\ etab.hasPawns
    /\ eflags = <<1, 4, 9, 12>>
    /\ Arrange(epos, etab).tbFile = 1
    /\ Arrange(epos, etab).stm = 1

(***************************************************************************)
(* C14: whenever probe_wdl returns with success = 2, the position has a    *)
(* legal capture after which the opponent's value, negated, equals the     *)
(* returned score.                                                         *)
(***************************************************************************)
CaptureAchieves(p, v) ==
    \E i \in 1..Len(p.moves) :
        /\ p.moves[i].legal
        /\ p.moves[i].kind \in {"cap", "ep"}
        /\ LET r == probe_wdl(p.moves[i].child, <<>>)
           IN  r.s # 0 /\ -r.v = v

\* C14: with success = 2 some legal capture achieves the returned score
C14_ZeroingAchievesWdl ==
    ("wdl" \in pcalled /\ pwdl.s = 2) => CaptureAchieves(ppos, pwdl.v)

\* the same for positions without en-passant rights, where probe_wdl is
\* probe_ab with the full window
C14_ZeroingAchievesWdlNoEp ==
    ("wdl" \in pcalled /\ pwdl.s = 2 /\ ~HasEp(ppos)) =>
        CaptureAchieves(ppos, pwdl.v)

(***************************************************************************)
(* C15: in probe_wdl on a position with a legal en-passant capture, the    *)
(* result is the best en-passant result v1 instead of the no-ep result v   *)
(* if and only if v1 >= v.                                                 *)
(***************************************************************************)
NoEpResult == probe_ab(ppos, WDLLoss, WDLWin, 1, <<>>)
EpResult == ep_loop(ppos, 1, NoEpValue, NoEpResult.s, NoEpResult.t)

\* probe_wdl was called, succeeded, and some en-passant capture was legal
EpProbed ==
    /\ "wdl" \in pcalled
    /\ pwdl.s # 0
    /\ \E i \in 1..Len(ppos.moves) :
          ppos.moves[i].kind = "ep" /\ ppos.moves[i].legal

\* C15: the result is v1 if v1 >= v, and v otherwise
C15_EpDominatesIffGreater ==
    EpProbed =>
        pwdl.v = (IF EpResult.v >= NoEpResult.v THEN EpResult.v ELSE NoEpResult.v)

\* C15 as the code has it: the en-passant result is also taken when the
\* no-ep result is a draw and no other move is legal
C15_EpDominatesOrForced ==
    EpProbed =>
        pwdl.v = (IF \/ EpResult.v >= NoEpResult.v
                     \/ (NoEpResult.v = WDLDraw /\ ~HasLegalNonEp(ppos))
                  THEN EpResult.v
                  ELSE NoEpResult.v)

\* a stalemate but for a losing en-passant capture
C15_Witness ==
    /\ EpProbed
    /\ ~HasLegalNonEp(ppos)
    /\ NoEpResult.v = WDLDraw
    /\ EpResult.v = WDLLoss
    /\ pwdl.v = WDLLoss

(***************************************************************************)
(* The root probes against the probes of the root's moves.                 *)
(***************************************************************************)
MovesIn(rm) == [i \in 1..Len(rm) |-> rm[i].move]

\* the moves of rm, in the order of rm, whose place in the move list is in S
Among(rm, S) ==
    LET Test(e) == e.move \in S
    IN  MovesIn(SelectSeq(rm, Test))

InputMoves == RootMovesOf(ppos)
InputPlaces == { InputMoves[i].move : i \in 1..Len(InputMoves) }

RootDtz == probe_dtz(ppos, <<>>).v

\* the score root_probe gives the move at place i
DtzScore(i) == root_score(ppos, ppos.moves[i], RootDtz, 1, <<>>).v

\* the negated WDL value of the position after the move at place i
ChildWdl(i) == -probe_wdl(ppos.moves[i].child, <<>>).v

\* some position recurred since the last capture or pawn move
Repeated(h) ==
    LET n == Len(h)
        e == Min(h[n].rule50, h[n].pliesFromNull)
    IN  \E i \in (n - e)..n, j \in (n - e)..n : i < j /\ h[i].key = h[j].key

(***************************************************************************)
(* C16: when root_probe or root_probe_wdl returns false, rootMoves holds   *)
(* the same moves in the same order as before the call.                    *)
(***************************************************************************)
C16_FalseKeepsMoves ==
    (rcalled # "none" /\ ~rret) => MovesIn(rootMoves) = MovesIn(InputMoves)

\* the first of two moves was scored before the probe of the second failed
C16_Witness ==
    /\ rcalled # "none"
    /\ ~rret
    /\ Len(rootMoves) = 2
    /\ rootMoves[1].score # NoScore
    /\ rootMoves[2].score = NoScore

(***************************************************************************)
(* C17: root_probe on a losing root position (dtz < 0) and the 50-move     *)
(* draw: the moves of the worst score against all moves.                   *)
(***************************************************************************)
LosingRoot == rcalled = "root_probe" /\ rret /\ RootDtz < 0

WorstScore == CHOOSE v \in {DtzScore(i) : i \in InputPlaces} :
                  \A i \in InputPlaces : v <= DtzScore(i)

WorstMoves == { i \in InputPlaces : DtzScore(i) = WorstScore }

\* 1874: we approach or have a 50-move rule draw
DrawInReach == -WorstScore * 2 + rcnt50 >= 100

\* C17 as stated: if the draw is not in reach only the moves of the worst
\* score are kept, otherwise all moves are kept
C17_LosingKeepsWorstUnlessDraw ==
    (LosingRoot /\ InputMoves # <<>>) =>
        MovesIn(rootMoves) =
            IF ~DrawInReach THEN Among(InputMoves, WorstMoves) ELSE MovesIn(InputMoves)

\* C17 as the code has it: if the draw is in reach only the moves of the
\* worst score are kept, otherwise all moves are kept
C17_LosingKeepsWorstIfDraw ==
    (LosingRoot /\ InputMoves # <<>>) =>
        MovesIn(rootMoves) =
            IF DrawInReach THEN Among(InputMoves, WorstMoves) ELSE MovesIn(InputMoves)

\* two losing moves of different scores, the draw in reach: one is kept
C17_Witness ==
    /\ LosingRoot
    /\ Len(InputMoves) = 2
    /\ DrawInReach
    /\ Len(rootMoves) = 1
    /\ rootMoves[1].score = WorstScore

(***************************************************************************)
(* C18: root_probe on a winning root position (dtz > 0) keeps exactly the  *)
(* moves of score v with 0 < v <= max, where max is 99 - cnt50 when no     *)
(* position recurred since the last zeroing move and the least positive    *)
(* score best has best + cnt50 <= 99, and max is best otherwise; the move  *)
(* of the least positive score is always kept.                             *)
(***************************************************************************)
WinningRoot == rcalled = "root_probe" /\ rret /\ RootDtz > 0

PositiveMoves == { i \in InputPlaces : DtzScore(i) > 0 }

LeastPositive == CHOOSE v \in {DtzScore(i) : i \in PositiveMoves} :
                     \A i \in PositiveMoves : v <= DtzScore(i)

MaxKept ==
    IF ~Repeated(rst) /\ LeastPositive + rcnt50 <= 99
    THEN 99 - rcnt50
    ELSE LeastPositive

C18_WinningKeepsWithinBudget ==
    (WinningRoot /\ PositiveMoves # {}) =>
        /\ MovesIn(rootMoves) =
               Among(InputMoves, { i \in PositiveMoves : DtzScore(i) <= MaxKept })
        /\ \E k \in 1..Len(rootMoves) : rootMoves[k].score = LeastPositive

\* a slower win is kept beside the quickest one: it stays within the budget
C18_Witness ==
    /\ WinningRoot
    /\ Len(rootMoves) = 2
    /\ rootMoves[1].score # rootMoves[2].score
    /\ rcnt50 > 0
    /\ ~Repeated(rst)

(***************************************************************************)
(* C19: when root_probe_wdl returns true, rootMoves holds exactly the      *)
(* input moves whose negated child WDL is the maximum over the input       *)
(* moves, in their order, and is not empty unless the input was.           *)
(***************************************************************************)
BestWdlMoves ==
    { i \in InputPlaces : \A k \in InputPlaces : ChildWdl(i) >= ChildWdl(k) }

C19_WdlKeepsBest ==
    (rcalled = "root_probe_wdl" /\ rret) =>
        /\ MovesIn(rootMoves) = Among(InputMoves, BestWdlMoves)
        /\ InputMoves # <<>> => rootMoves # <<>>

\* of two moves the second is the better one; both lose
C19_Witness ==
    /\ rcalled = "root_probe_wdl"
    /\ rret
    /\ Len(InputMoves) = 2
    /\ MovesIn(rootMoves) = <<2>>
    /\ ChildWdl(2) = WDLCursedLoss

(***************************************************************************)
(* C20: Tablebases::init is idempotent.  After init(paths), whatever was   *)
(* probed before, the state is that of one init(paths) in a fresh process: *)
(* the DTZ list is empty, the WDL registry and the hash hold one unloaded  *)
(* entry for each material whose .rtbw file is found, and MaxCardinality   *)
(* is the largest piece count among them.                                  *)
(***************************************************************************)
FreshInit == init(<<>>, TBPaths)

FoundMaterials ==
    { m \in { InsertCalls[i] : i \in 1..Len(InsertCalls) } :
        <<m, "rtbw">> \in FilesAt(TBPaths) }

\* C20: the state after init(paths) is that of a fresh init(paths)
C20_InitIdempotent ==
    (ilast = "init" /\ ~exited) =>
        /\ DTZTable = <<>>
        /\ WDLTable = FreshInit.WDLTable
        /\ WDLHash = FreshInit.WDLHash
        /\ MaxCardinality = FreshInit.MaxCardinality
        /\ \A i \in 1..Len(WDLTable) : ~WDLTable[i].ready
        /\ { WDLTable[i].pieces : i \in 1..Len(WDLTable) } = FoundMaterials
        /\ Len(WDLTable) = Cardinality(FoundMaterials)
        /\ \A m \in FoundMaterials, c \in {0, 1} :
              LET e == hash_lookup(WDLHash, material_key(m, c))
              IN  e # 0 /\ WDLTable[e].pieces = m
        /\ \A key \in ProbeKeys :
              hash_lookup(WDLHash, key) # 0 =>
                  \E m \in FoundMaterials, c \in {0, 1} : key = material_key(m, c)
        /\ \A m \in FoundMaterials : Len(m) <= MaxCardinality
        /\ \/ FoundMaterials = {} /\ MaxCardinality = 0
           \/ \E m \in FoundMaterials : Len(m) = MaxCardinality

\* init finds a DTZ list of two entries and two loaded WDL entries, and
\* registers three materials
C20_Witness ==
    /\ ilast = "init"
    /\ icleared.dtz >= 2
    /\ icleared.ready >= 2
    /\ Len(WDLTable) = 3
    /\ MaxCardinality = 5

(***************************************************************************)
(* C21: init with an empty path string or with "<empty>" disables the      *)
(* probes.  The registry is empty from the init on, so every lookup of     *)
(* probe_wdl_table fails; a position of the two kings alone is answered    *)
(* before the lookup (1142-1143), with *success as the caller set it.      *)
(***************************************************************************)
Disabled == TBPaths \in {"", "<empty>"}

RegistryEmpty ==
    /\ WDLTable = <<>>
    /\ WDLHash = EmptyHash
    /\ DTZTable = <<>>
    /\ MaxCardinality = 0

\* C21 as stated: after init("") or init("<empty>") the WDL registry and the
\* DTZ list are empty, MaxCardinality is 0 and every probe_wdl and probe_dtz
\* reports success = 0
C21_EmptyPathDisables ==
    Disabled => /\ RegistryEmpty
                /\ iout.call # "none" => iout.s = 0

\* C21: after init("") or init("<empty>") the WDL registry and the DTZ list
\* are empty, MaxCardinality is 0 and every probe_wdl and probe_dtz of a
\* position with a piece besides the kings reports success = 0; a position
\* of the two kings alone reports success = 1
C21_EmptyPathDisablesButKings ==
    Disabled => /\ RegistryEmpty
                /\ iout.call # "none" => iout.s = IF iout.kings THEN 1 ELSE 0

\* init("<empty>") cleared a DTZ list and loaded WDL entries, and probe_dtz
\* of a position with more than the kings was called after it
C21_Witness ==
    /\ TBPaths = "<empty>"
    /\ icleared.dtz >= 1
    /\ icleared.ready >= 1
    /\ iout = [call |-> "probe_dtz", kings |-> FALSE, s |-> 0]

(***************************************************************************)
(* C22: a failed table init is remembered.  In probe_wdl_table a probe     *)
(* that finds the entry (registered) ends with *success = 0 only when      *)
(* entry->init failed (1158-1161); a probe that has not started by then is *)
(* a later probe of the same material (late).                              *)
(***************************************************************************)
\* C22: once init of the WDL table has failed in one probe, no later probe
\* of the same material calls entry->init again
C22_FailedInitRemembered == \A t \in Threads : late[t] => pc[t] # "init"

(***************************************************************************)
(* C25: probe_dtz_no_ep when its probe_ab comes back with *success = 2     *)
(* (1321-1322).  With the full window probe_ab leaves 2 only with a value  *)
(* above a draw, so the two negative values of the claim never arise.      *)
(***************************************************************************)
ZeroingValue(wdl) ==
    IF wdl = WDLWin THEN 1
    ELSE IF wdl = WDLCursedWin THEN 101
    ELSE IF wdl = WDLLoss THEN -1
    ELSE -101

NoEpDtz == probe_dtz_no_ep(ppos, 1, <<>>)

\* C25: when the first probe_ab of probe_dtz_no_ep reports success = 2 the
\* function returns 1 for a win, 101 for a cursed win, -1 for a loss and
\* -101 for a cursed loss, and makes no table lookup after those of probe_ab
C25_ZeroingMoveDtz ==
    ("dtz" \in pcalled /\ NoEpResult.s = 2) =>
        /\ NoEpResult.v # WDLDraw
        /\ NoEpDtz.v = ZeroingValue(NoEpResult.v)
        /\ NoEpDtz.s = 2
        /\ NoEpDtz.t = NoEpResult.t
        /\ ~HasEp(ppos) => pdtz = NoEpDtz

\* a capture reaches a cursed win in a position that both tables hold
C25_Witness ==
    /\ "dtz" \in pcalled
    /\ NoEpResult.s = 2
    /\ NoEpResult.v = WDLCursedWin
    /\ ppos.tb = "both"
    /\ ~HasEp(ppos)
    /\ pdtz.v = 101

(***************************************************************************)
(* C26: *success when probe_dtz returns.  probe_dtz_table leaves -1 when   *)
(* the table stores the other side (1356-1358); the loops at 1367-1383 and *)
(* 1394-1420 change it only through the probes they call.                  *)
(***************************************************************************)
\* C26: probe_dtz never returns with success = -1
C26_DtzNeverReturnsWrongSide == "dtz" \in pcalled => pdtz.s # -1

(***************************************************************************)
(* C27: probe_dtz_table reads DTZTable.front() at 1176 before anything is  *)
(* known about the list; dtzOut.ub records that the call read the front of *)
(* an empty list.                                                          *)
(***************************************************************************)
\* C27: no probe_dtz_table call reads the front element of an empty DTZ list
C27_FrontReadOnlyWhenNonEmpty == ~dtzOut.ub

(***************************************************************************)
(* C29: the DTZ list under probes made one after the other: an entry is    *)
(* pushed only after the scan at 1179-1184 found none for the key, and a   *)
(* found entry is moved, not copied.                                       *)
(***************************************************************************)
KeysOfEntry(e) == {e.key, e.key2}

HoldsKey(list, key) == \E i \in 1..Len(list) : Matches(list[i], key)

\* C29: no two entries of the DTZ list match the same material key, and
\* when the list holds an entry for the key of the last probe_dtz_table
\* call that entry is its first element
C29_DtzListUniqueFrontProbed ==
    /\ \A i, j \in 1..Len(DTZTable) :
          i # j => KeysOfEntry(DTZTable[i]) \cap KeysOfEntry(DTZTable[j]) = {}
    /\ HoldsKey(DTZTable, dtzOut.key) => Matches(DTZTable[1], dtzOut.key)

\* the last call moved an older entry to the front of a list of three
C29_Witness ==
    /\ Len(DTZTable) >= 3
    /\ Matches(DTZTable[1], dtzOut.key)
    /\ DTZTable[1].key2 = dtzOut.key
    /\ DTZTable[1].key # dtzOut.key
    /\ \E i \in 2..Len(DTZTable) :
          MaterialOf(DTZTable[i].key) > MaterialOf(DTZTable[1].key)

(***************************************************************************)
(* C24: the diagonal step of the pawnless canonicalisation (751-759) on    *)
(* the squares left by the horizontal and the vertical flip.               *)
(***************************************************************************)
\* the squares of the first position after 723-725 and 743-745
BeforeDiagonal == VFlipIfHigh(Arrange(eorig, etab).squares)

\* the squares the index of the first position is computed from
AfterDiagonal == DiagonalFlip(BeforeDiagonal, etab.hasUniquePieces)

\* the indices (1-based) of the squares off the a1-h8 diagonal
OffDiagonal(sq) == {i \in 1..Len(sq) : off_A1H8(sq[i]) # 0}

FirstOff(sq) == CHOOSE i \in OffDiagonal(sq) : \A j \in OffDiagonal(sq) : i <= j

\* the squares from index i on moved by sq -> ((sq >> 3) | (sq << 3)) & 63
FlippedFrom(sq, i) ==
    [j \in 1..Len(sq) |-> IF j >= i THEN ((sq[j] \div 8) + (sq[j] * 8)) % 64
                          ELSE sq[j]]

ProbedPawnless == eres0 # NoIndex /\ ~etab.hasPawns

\* the first square off the diagonal lies above it
FirstOffAbove(sq) == OffDiagonal(sq) # {} /\ off_A1H8(sq[FirstOff(sq)]) > 0

InClosedTriangle(s) == InTriangle(s) \/ OnShortDiagonal(s)

LeadingRange(hasUniquePieces) == IF hasUniquePieces THEN 0..31331 ELSE 0..461

\* C30: for a pawnless table the index of the leading group lies in
\* 0..31331 (unique pieces) or 0..461 (otherwise), the KK_idx lookup does not
\* give the -1 marker, and the first square is in the a1-d1-d4 triangle
C30_LeadingIndexInRange ==
    ProbedPawnless =>
        /\ LeadingIdx(AfterDiagonal, etab.hasUniquePieces)
               \in LeadingRange(etab.hasUniquePieces)
        /\ ~etab.hasUniquePieces
               => KK_idx(MapA1D1D4(AfterDiagonal[1]), AfterDiagonal[2]) # -1
        /\ InClosedTriangle(AfterDiagonal[1])
        /\ eres0.idx >= 0

\* both kings of a table without unique pieces on the diagonal after a
\* vertical flip: the pair has one of the last codes of KK_idx
C30_Witness ==
    /\ ProbedPawnless
    /\ ~etab.hasUniquePieces
    /\ rank_of(Arrange(eorig, etab).squares[1]) > 3
    /\ OnShortDiagonal(AfterDiagonal[1])
    /\ off_A1H8(AfterDiagonal[2]) = 0
    /\ LeadingIdx(AfterDiagonal, FALSE) = 461

(***************************************************************************)
(* C23: the depth of the calls.  probe_ab calls itself only after a        *)
(* capture (1269-1277); probe_dtz_no_ep calls probe_dtz after a move that  *)
(* is no capture and no pawn move (1375, 1410) only when the DTZ table     *)
(* stores the other side, and then the table stores the side to move of    *)
(* the position it calls probe_dtz on.                                     *)
(***************************************************************************)
FramesOf(fn) == {i \in 1..Len(kstack) : kstack[i].fn = fn}

\* the probe_ab calls open inside the call of frame i
AbAbove(i) == Cardinality({j \in FramesOf("ab") : j > i})

\* the frames of probe_dtz_no_ep that are in the loops of 1364-1423
Descending ==
    {i \in FramesOf("noep") :
        kstack[i].pc \in {"win", "win_back", "loss", "loss_back"}}

DepthBounded ==
    /\ \A i \in FramesOf("ab") : AbAbove(i) <= kstack[i].entry.pos.n
    /\ Cardinality(Descending) <= 1
    /\ Cardinality(FramesOf("dtz")) <= 2
    /\ kstack # <<>> => Len(kundo) <= kstack[1].entry.pos.n + 3

Returned == kstack = <<>> /\ klast # NoFrame

\* C23: every probe returns; the probe_ab calls open inside a probe_ab call
\* are never more than the pieces that can be captured, at most one
\* probe_dtz_no_ep call is in its loops over the moves, and the moves made
\* and not taken back are never more than those pieces and three
C23_ProbesTerminate == []DepthBounded /\ <>Returned

\* the probe_dtz called from the loop of a lost position has reached, after a
\* pawn move, the third probe_ab below a position with two pieces to capture
C23_Witness ==
    /\ Cardinality(FramesOf("dtz")) = 2
    /\ Descending # {}
    /\ \E i \in FramesOf("ab") : kstack[i].entry.pos.n = 2 /\ AbAbove(i) = 2
    /\ Len(kundo) = 5

(***************************************************************************)
(* C28: the position a probe returns with.  Every return that follows a    *)
(* do_move comes after the undo_move of 1277, 1347, 1376, 1413, 1486,      *)
(* 1696, 1806 and 1921.                                                    *)
(***************************************************************************)
Waiting ==
    {"back", "after", "pawns_back", "win_back", "loss_back", "ep_back"}

\* C28: every probe function returns with the position and the chain of
\* moves it was called with, and has them whenever it is not inside a call
C28_PositionRestored ==
    /\ klast.exit = klast.entry
    /\ (kstack # <<>> /\ KTop.pc \notin Waiting)
           => (kpos = KTop.entry.pos /\ Len(kundo) = KTop.entry.plies)
    /\ Returned => kundo = <<>>

\* probe_ab, called two moves below the root, has returned from its loop at
\* the beta cutoff, after the undo_move of 1277
C28_Witness ==
    /\ klast.fn = "ab"
    /\ klast.at = "back"
    /\ ksuccess = 2
    /\ kret >= WDLCursedWin
    /\ klast.entry.plies = 2
    /\ klast.exit = klast.entry
    /\ kpos = klast.entry.pos

====
